---- MODULE Spec2Model ----
(***************************************************************************)
(* Model of the QuPyt pulse-sequence compilers for the PulseBlaster and    *)
(* for the AWG (pulse_sequences/SequenceDesigner.py), of the change-       *)
(* detection cache of the AWG compiler (same file), of the programming of  *)
(* the PulseBlaster board (hardware/synchronisers.py) and of the dynamic   *)
(* sweep generator and stepper (hardware/device_handler.py); further of   *)
(* the Pulse Streamer compiler, the static device handler, the             *)
(* measurement loop (measurement_logic/run_measurement.py), the data       *)
(* container (measurement_logic/data_handling.py) and the watcher and      *)
(* worker threads of main.py.                                              *)
(*                                                                         *)
(* Times of the PulseBlaster compiler are integers (one unit = one tick of *)
(* the time grid of the sequence file), times of the AWG compiler are half *)
(* sample periods, durations handed to the board are half nanoseconds;     *)
(* sweep values are exact rationals <<num, den>>.                          *)
(***************************************************************************)
EXTENDS Integers, Sequences, FiniteSets, TLC

VARIABLES
    \* PulseBlasterSequence
    yaml_sequence,      \* the loaded sequence file (self.yaml_sequence)
    ps,                 \* self.ps: block name -> compiled segment lists
    pb_pc,              \* "constructed", "parsed", "failed", "compiled"
    pb_error,           \* exception raised by parse_pulse_sequence_file
    compiled,           \* value returned by compile()
    \* PulseSequenceYaml: change-detection cache
    yaml_file,          \* text of sequence.yaml
    aux_file,           \* sequence.aux, the persisted baseline
    aux_state,          \* "missing", "written" (by the cache) or "damaged"
    cache_log,          \* one record per _sequence_didnt_change call
    \* DynamicDeviceHandler
    devices,                \* self.devices, in dictionary order
    number_dynamic_steps,   \* self.number_dynamic_steps
    current_dynamic_step,   \* self.current_dynamic_step
    applied,                \* configurations applied by the last next_dynamic_step
    build_error,            \* exception raised by the last update_devices
    step_error,             \* exception raised by the last next_dynamic_step
    prev_step,              \* the cursor before the last handler call
    last_op,                \* the last handler call
    \* PulseSequenceYaml / PulseSequence: the AWG compiler
    awg_spec,           \* the loaded sequence file (sequence_instructions)
    awg_pc,             \* "loaded", "done" or "failed"
    awg_error,          \* exception leaving translate_yaml_to_numeric_instructions
    awg_pulses,         \* seq.pulses: block index -> channel index -> samples
    awg_warnings,       \* seq.warning_counter
    awg_bundle,         \* sequence.npz
    \* PulseBlaster.program_pb
    program,            \* the segment lists handed to program_pb
    board,              \* the instructions the board has received, in order
    board_pc,           \* "idle", "programmed" or "failed"
    board_error,        \* exception leaving program_pb
    \* PStreamer
    streamer_file,      \* sequence.yaml as the last load_sequence read it
    streamer_sequence,  \* self.sequence, an attribute that load_sequence creates
    streamer_error,     \* exception leaving the last call
    streamer_log,       \* exceptions caught and logged, in order
    streamer_op,        \* the last call: "init", "load_sequence" or "run"
    streamer_streamed,  \* what the last run handed to pulser.stream
    streamer_calls,     \* number of load_sequence calls so far
    \* The two compilers on one pulse whose fields are YAML scalars
    coerce_pulse,       \* the pulse as the sequence file gives it
    coerce_pb,          \* outcome of the PulseBlaster compiler, once it ran
    coerce_awg,         \* outcome of the AWG compiler, once it ran
    \* run_measurement
    meas_sensor,        \* class of the sensor
    meas_load,          \* what synchroniser.load_sequence does: "none" or the exception
    meas_size,          \* iterator_size and averages
    meas_pc,            \* position in run_measurement
    meas_itervalue,     \* loop variable itervalue
    meas_avg,           \* loop variable avg
    return_status,      \* the local return_status
    meas_exception,     \* exception in flight, "none" if there is none
    sensor_opened,      \* sensor.open() was called
    sensor_closed,      \* sensor.close() returned
    synchroniser_closed, \* synchroniser.close() returned
    \* Data (the data container)
    data_self,          \* the attributes of the Data object
    data_sensor,        \* the sensor's roi_shape and number_measurements
    data_array,         \* shape of self.data, once create_array made it
    data_error,         \* exception leaving the last call
    data_pc,            \* "configured", "dims_set", "created" or "failed"
    \* DeviceHandler (the static devices)
    static_requested,   \* self.requested_devices
    static_devices,     \* self.devices
    static_applied,     \* the configuration each device applied in the last set_all_params
    static_op,          \* the last call: "init", "update_devices" or "set_all_params"
    \* PulseSequenceYaml over several calls
    awg_baseline,       \* sequence.aux: the document persisted by the last cache check
    awg_calls,          \* number of translate_yaml_to_numeric_instructions calls
    \* main: the waiting-room watcher and the parse_input worker
    queue,              \* the paths put by the watcher and not yet taken
    event_thread,       \* the flag of the threading.Event
    watcher_pc,         \* "idle", "put" (before set) or "set" (before clear)
    worker_pc,          \* "loop", "ready", "waiting", "woken", "busy" or "measure"
    instruction_file,   \* the path the worker took from the queue, if any
    file_events,        \* number of file events handled by the watcher
    processed           \* number of paths the worker has processed

pbVars == <<yaml_sequence, ps, pb_pc, pb_error, compiled>>

cacheVars == <<yaml_file, aux_file, aux_state, cache_log>>

sweepVars == <<devices, number_dynamic_steps, current_dynamic_step, applied,
               build_error, step_error, prev_step, last_op>>

awgVars == <<awg_spec, awg_pc, awg_error, awg_pulses, awg_warnings, awg_bundle>>

boardVars == <<program, board, board_pc, board_error>>

streamerVars == <<streamer_file, streamer_sequence, streamer_error, streamer_log,
                  streamer_op, streamer_streamed, streamer_calls>>

coerceVars == <<coerce_pulse, coerce_pb, coerce_awg>>

measVars == <<meas_sensor, meas_load, meas_size, meas_pc, meas_itervalue, meas_avg,
              return_status, meas_exception, sensor_opened, sensor_closed,
              synchroniser_closed>>

dataVars == <<data_self, data_sensor, data_array, data_error, data_pc>>

staticVars == <<static_requested, static_devices, static_applied, static_op>>

translateVars == <<awg_baseline, awg_calls>>

waitVars == <<queue, event_thread, watcher_pc, worker_pc, instruction_file,
              file_events, processed>>

vars == <<pbVars, cacheVars, sweepVars, awgVars, boardVars, streamerVars, coerceVars, measVars, dataVars, staticVars, translateVars, waitVars>>

-----------------------------------------------------------------------------
(* Bounds of the PulseBlaster inputs *)

MaxStart == 2
MaxDuration == 2
MaxPulses == 2
MaxTotal == 5
MaxRepeats == 2

(* Bounds of the change-detection cache *)

MaxDocValue == 2
MaxCalls == 2

(* Bounds of the dynamic sweep generator and stepper *)

MaxSteps == 3
MaxListLen == 3
MaxValue == 2
MaxCursor == 4

(* Bounds of the AWG compiler inputs *)

MaxSamples == 3
MaxAmplitude == 2

(* Bounds of the measurement loop and of the data container *)

MaxAverages == 2
MaxMeasurements == 4
MaxChannels == 3
MaxRoiDims == 3
MaxRoiSide == 2

(* File events in the waiting room *)

MaxEvents == 3

(* Bounds of the programs handed to the PulseBlaster board *)

MaxSegments == 3
MaxOverLimit == 1

-----------------------------------------------------------------------------
(* Generic helpers *)

\* A dictionary key that is not present.
NoEntry == [missing |-> TRUE]

RECURSIVE Pow2(_)
Pow2(n) == IF n = 0 THEN 1 ELSE 2 * Pow2(n - 1)

\* Python list.pop(i) for a 0-based index i that is in range.
PopAt(s, i) == [k \in 1..(Len(s) - 1) |-> IF k <= i THEN s[k] ELSE s[k + 1]]

\* Python list * n
RECURSIVE Repeat(_, _)
Repeat(s, n) == IF n <= 0 THEN <<>> ELSE s \o Repeat(s, n - 1)

-----------------------------------------------------------------------------
(* PulseBlasterSequence: inputs *)

Channels == {"A", "B"}

\* Iteration order of a block's channel dictionary.
ChannelOrder == <<"A", "B">>

\* The caller-supplied channel mapping: channel name -> bit index.
channel_mapping == [c \in Channels |-> IF c = "A" THEN 2 ELSE 0]

Pulses == [start : 0..MaxStart, duration : 0..MaxDuration]

PulseLists(n) == UNION {[1..k -> Pulses] : k \in 0..n}

BlockNames == {"b1", "b2"}

\* Block b1 carries up to MaxPulses pulses on channel A and at most one on
\* channel B; block b2, when the file defines it, is a single pulse on A.
FirstBlockSpecs ==
    {[c \in Channels |-> IF c = "A" THEN a ELSE b] :
        a \in PulseLists(MaxPulses), b \in PulseLists(1)}

SecondBlockSpecs ==
    {[c \in Channels |-> IF c = "A" THEN <<[start |-> 1, duration |-> 1]>> ELSE <<>>]}

Sequencings ==
    {[order |-> <<"b1">>, repeats |-> <<r>>] : r \in 1..MaxRepeats}
    \cup {[order |-> <<"b2", "b1">>, repeats |-> <<0, 1>>],
          [order |-> <<"b1", "b2", "b1">>, repeats |-> <<1, MaxRepeats, 1>>]}

TotalDurations == (MaxTotal - 2)..MaxTotal

YamlFile(t, s, b1, b2) ==
    [total_duration |-> t,
     total_duration_type |-> "float",
     sequencing_order |-> s.order,
     sequencing_repeats |-> s.repeats,
     blocks |-> [n \in BlockNames |-> IF n = "b1" THEN b1 ELSE b2]]

\* Every first block is played once on its own, capped one tick short of
\* MaxTotal; the blocks with at most one pulse on channel A are also played
\* under every sequencing and cap, with and without a definition of b2.
YamlSequences ==
    {YamlFile(MaxTotal - 1, [order |-> <<"b1">>, repeats |-> <<1>>], b1, NoEntry) :
        b1 \in FirstBlockSpecs}
    \cup {YamlFile(t, s, b1, b2) :
        t \in TotalDurations, s \in Sequencings,
        b1 \in {b \in FirstBlockSpecs : Len(b["A"]) <= 1},
        b2 \in SecondBlockSpecs \cup {NoEntry}}

\* A sequence file whose total_duration is the string 'ignore', the sentinel
\* of PStreamer.load_sequence for a sequence without a time cap; the field
\* total_duration then holds no number and is never read.
Uncapped(y) == [y EXCEPT !.total_duration = 0, !.total_duration_type = "str"]

UncappedSequences ==
    {Uncapped(YamlFile(0, [order |-> <<"b1">>, repeats |-> <<1>>], b1, NoEntry)) :
        b1 \in {b \in FirstBlockSpecs : Len(b["A"]) <= 1}}

-----------------------------------------------------------------------------
(* PulseBlasterSequence: the per-block pipeline *)

\* _append_event: one 'up' and one 'down' edge per pulse.
AppendEvent(events, channel, pulse) ==
    events \o <<[time |-> pulse.start, channel |-> channel, event |-> "up"],
                [time |-> pulse.start + pulse.duration, channel |-> channel,
                 event |-> "down"]>>

RECURSIVE ParseChannel(_, _, _)
ParseChannel(events, channel, channel_pulses) ==
    IF channel_pulses = <<>> THEN events
    ELSE ParseChannel(AppendEvent(events, channel, Head(channel_pulses)),
                      channel, Tail(channel_pulses))

RECURSIVE ParseBlockFrom(_, _, _)
ParseBlockFrom(events, ps_block, i) ==
    IF i > Len(ChannelOrder) THEN events
    ELSE ParseBlockFrom(ParseChannel(events, ChannelOrder[i], ps_block[ChannelOrder[i]]),
                        ps_block, i + 1)

ParseBlock(ps_block) == ParseBlockFrom(<<>>, ps_block, 1)

\* Python's ordering of the strings used as channel names and edge names.
ChannelRank(c) == IF c = "A" THEN 0 ELSE 1
EventRank(e) == IF e = "down" THEN 0 ELSE 1

TupleLess_TimeOnly(e, f) == e.time < f.time

\* Ordering of the (time, channel, event) tuples that sorted() compares.
TupleLess(e, f) ==
    \/ e.time < f.time
    \/ /\ e.time = f.time
       /\ \/ ChannelRank(e.channel) < ChannelRank(f.channel)
          \/ /\ e.channel = f.channel
             /\ EventRank(e.event) < EventRank(f.event)

RECURSIVE InsertSorted(_, _)
InsertSorted(sorted, e) ==
    IF sorted = <<>> THEN <<e>>
    ELSE IF TupleLess(e, Head(sorted)) THEN <<e>> \o sorted
    ELSE <<Head(sorted)>> \o InsertSorted(Tail(sorted), e)

RECURSIVE SortPulses(_)
SortPulses(events) ==
    IF events = <<>> THEN <<>>
    ELSE InsertSorted(SortPulses(SubSeq(events, 1, Len(events) - 1)),
                      events[Len(events)])

\* _get_event_durations
GetEventDurations(events, total_duration) ==
    LET diffs == [i \in 1..(Len(events) - 1) |-> events[i + 1].time - events[i].time]
    IN  IF events[Len(events)].time # total_duration
        THEN Append(diffs, total_duration - events[Len(events)].time)
        ELSE diffs

EventToSign_AlwaysUp(event) == 1

EventToSign(event) == IF event = "up" THEN 1 ELSE -1

\* The loop of _compute_channel_bits: one running value per duration.
RECURSIVE ChannelBitsLoop(_, _)
ChannelBitsLoop(events, n) ==
    IF n = 0 THEN <<>>
    ELSE LET before == ChannelBitsLoop(events, n - 1)
             prev_val == IF before = <<>> THEN 0 ELSE before[Len(before)]
         IN  Append(before,
                    prev_val + Pow2(channel_mapping[events[n].channel])
                               * EventToSign(events[n].event))

\* _pop_uncessary_entries: the indices are collected first (0-based) and
\* then popped one after the other from the shrinking lists.
IndicesToPop(durations) ==
    LET RECURSIVE Collect(_)
        Collect(i) == IF i > Len(durations) THEN <<>>
                      ELSE IF durations[i] = 0 THEN <<i - 1>> \o Collect(i + 1)
                      ELSE Collect(i + 1)
    IN  Collect(1)

RECURSIVE PopLoop(_, _, _)
PopLoop(indices, channel_bits, durations) ==
    IF indices = <<>>
    THEN [error |-> "none", channel_bits |-> channel_bits, durations |-> durations]
    ELSE IF Head(indices) >= Len(durations)
    THEN [error |-> "IndexError", channel_bits |-> channel_bits, durations |-> durations]
    ELSE PopLoop(Tail(indices), PopAt(channel_bits, Head(indices)),
                 PopAt(durations, Head(indices)))

PopUncessaryEntries(channel_bits, durations) ==
    PopLoop(IndicesToPop(durations), channel_bits, durations)

\* _compute_channel_bits
ComputeChannelBits(events, durations) ==
    LET bits == ChannelBitsLoop(events, Len(durations))
    IN  IF events[1].time # 0
        THEN PopUncessaryEntries(<<0>> \o bits, <<events[1].time>> \o durations)
        ELSE PopUncessaryEntries(bits, durations)

\* _get_event_durations when self.total_duration is a string: the last event
\* time differs from it, and the subtraction of a number from a string raises.
CompileBlockStr(ps_block) ==
    LET events == SortPulses(ParseBlock(ps_block))
    IN  IF events = <<>>
        THEN [error |-> "ValueError", channel_bits |-> <<>>, durations |-> <<>>]
        ELSE [error |-> "TypeError", channel_bits |-> <<>>, durations |-> <<>>]

\* One iteration of the loop of parse_pulse_sequence_file.
CompileBlock(ps_block, total_duration) ==
    LET events == SortPulses(ParseBlock(ps_block))
    IN  IF events = <<>>
        THEN [error |-> "ValueError", channel_bits |-> <<>>, durations |-> <<>>]
        ELSE ComputeChannelBits(events, GetEventDurations(events, total_duration))

\* parse_pulse_sequence_file: the blocks of sequencing_order one after the
\* other; the first exception ends the loop and leaves self.ps as it is.
RECURSIVE ParseFrom(_, _, _)
ParseFrom(y, i, table) ==
    IF i > Len(y.sequencing_order) THEN [error |-> "none", ps |-> table]
    ELSE LET block == y.sequencing_order[i]
         IN  IF y.blocks[block] = NoEntry
             THEN [error |-> "KeyError", ps |-> table]
             ELSE LET r == IF y.total_duration_type = "str"
                           THEN CompileBlockStr(y.blocks[block])
                           ELSE CompileBlock(y.blocks[block], y.total_duration)
                  IN  IF r.error # "none"
                      THEN [error |-> r.error, ps |-> table]
                      ELSE ParseFrom(y, i + 1,
                                     [table EXCEPT ![block] =
                                        [channel_bits |-> r.channel_bits,
                                         durations |-> r.durations]])

\* compile(): zip(sequencing_order, sequencing_repeats)
RECURSIVE CompileFrom(_, _, _)
CompileFrom(y, table, i) ==
    IF i > Len(y.sequencing_order) \/ i > Len(y.sequencing_repeats)
    THEN [channel_bits |-> <<>>, durations |-> <<>>]
    ELSE LET rest == CompileFrom(y, table, i + 1)
             entry == table[y.sequencing_order[i]]
         IN  [channel_bits |-> Repeat(entry.channel_bits, y.sequencing_repeats[i])
                               \o rest.channel_bits,
              durations |-> Repeat(entry.durations, y.sequencing_repeats[i])
                            \o rest.durations]

-----------------------------------------------------------------------------
(* PulseBlasterSequence: state machine *)

EmptyPs == [n \in BlockNames |-> NoEntry]
NoProgram == [channel_bits |-> <<>>, durations |-> <<>>]

\* __init__: the sequence file is loaded, nothing is parsed yet.
InitPulseBlaster ==
    /\ yaml_sequence \in YamlSequences \cup UncappedSequences
    /\ ps = EmptyPs
    /\ pb_pc = "constructed"
    /\ pb_error = "none"
    /\ compiled = NoProgram

ParsePulseSequenceFile ==
    /\ pb_pc = "constructed"
    /\ LET r == ParseFrom(yaml_sequence, 1, ps)
       IN  /\ ps' = r.ps
           /\ pb_error' = r.error
           /\ pb_pc' = IF r.error = "none" THEN "parsed" ELSE "failed"
    /\ UNCHANGED <<yaml_sequence, compiled>>
    /\ UNCHANGED <<cacheVars, sweepVars, awgVars, boardVars, streamerVars, coerceVars, measVars, dataVars, staticVars, translateVars, waitVars>>

Compile ==
    /\ pb_pc = "parsed"
    /\ compiled' = CompileFrom(yaml_sequence, ps, 1)
    /\ pb_pc' = "compiled"
    /\ UNCHANGED <<yaml_sequence, ps, pb_error>>
    /\ UNCHANGED <<cacheVars, sweepVars, awgVars, boardVars, streamerVars, coerceVars, measVars, dataVars, staticVars, translateVars, waitVars>>

-----------------------------------------------------------------------------
(* PulseSequenceYaml: the change-detection cache (_sequence_didnt_change) *)

\* A sequence document is a mapping of keys to values; a YAML text is a
\* sequence of lines <<key, value>>.  GarbageLine is a line no YAML parser
\* accepts.
DocKeys == {"sequencing_repeats", "total_duration"}
DocValues == 1..MaxDocValue

KeyOrder == <<"sequencing_repeats", "total_duration">>
GarbageLine == <<"{", 0>>

\* The value yaml.safe_load returns for an empty document.
NoneDoc == [none |-> TRUE]

Dump_DropsLastKey(doc) ==
    [i \in 1..(Len(KeyOrder) - 1) |-> <<KeyOrder[i], doc[KeyOrder[i]]>>]

\* yaml.dump(doc): one line per key, keys in sorted order.
Dump(doc) ==
    LET RECURSIVE Lines(_)
        Lines(i) == IF i > Len(KeyOrder) THEN <<>>
                    ELSE IF KeyOrder[i] \in DOMAIN doc
                    THEN <<(<<KeyOrder[i], doc[KeyOrder[i]]>>)>> \o Lines(i + 1)
                    ELSE Lines(i + 1)
    IN  Lines(1)

\* yaml.safe_load(text): a mapping of the keys of the text, the last line of
\* a key winning; a text with a malformed line raises yaml.YAMLError.
Load(text) ==
    IF \E i \in 1..Len(text) : text[i] = GarbageLine
    THEN [error |-> "YAMLError", value |-> NoneDoc]
    ELSE IF text = <<>> THEN [error |-> "none", value |-> NoneDoc]
    ELSE [error |-> "none",
          value |-> [k \in {text[i][1] : i \in 1..Len(text)} |->
                        LET last == CHOOSE i \in 1..Len(text) :
                                        /\ text[i][1] = k
                                        /\ \A j \in (i + 1)..Len(text) : text[j][1] # k
                        IN  text[last][2]]]

\* The texts that a sequence generator may write to sequence.yaml: every
\* document, its keys in any order.
YamlTexts ==
    {t \in [1..Cardinality(DocKeys) -> DocKeys \X DocValues] :
        \A i, j \in 1..Len(t) : i # j => t[i][1] # t[j][1]}

NoFile == [missing |-> TRUE]
Unreadable == [unreadable |-> TRUE]
FileOf(text) == [text |-> text]

\* The baseline file after the FileNotFoundError branch.
BaselineAfterMiss(sequence_instructions) == FileOf(Dump(sequence_instructions))

\* _sequence_didnt_change: outcome "unchanged" is the return value True,
\* "changed" the return value False, "raised" an exception that leaves the
\* method; aux is the baseline file after the call.
SequenceDidntChangeResult(yaml_text, aux) ==
    LET sequence_instructions == Load(yaml_text).value
    IN  IF aux = NoFile
        THEN [outcome |-> "changed", aux |-> BaselineAfterMiss(sequence_instructions)]
        ELSE IF aux = Unreadable
        THEN [outcome |-> "raised", aux |-> aux]
        ELSE IF Load(aux.text).error # "none"
        THEN [outcome |-> "raised", aux |-> aux]
        ELSE [outcome |-> IF Load(aux.text).value = sequence_instructions
                          THEN "unchanged" ELSE "changed",
              aux |-> FileOf(Dump(sequence_instructions))]

InitCache ==
    /\ yaml_file \in YamlTexts
    /\ aux_file = NoFile
    /\ aux_state = "missing"
    /\ cache_log = <<>>

\* The sequence generator rewrites sequence.yaml.
WriteSequenceFile ==
    /\ \E t \in YamlTexts : t # yaml_file /\ yaml_file' = t
    /\ UNCHANGED <<aux_file, aux_state, cache_log>>
    /\ UNCHANGED <<pbVars, sweepVars, awgVars, boardVars, streamerVars, coerceVars, measVars, dataVars, staticVars, translateVars, waitVars>>

\* The persisted baseline is damaged behind the cache's back: truncated,
\* overwritten with a malformed line, or made unreadable.
DamagedFiles(file) ==
    {Unreadable}
    \cup {FileOf(SubSeq(file.text, 1, k)) : k \in 0..(Len(file.text) - 1)}
    \cup {FileOf(SubSeq(file.text, 1, k) \o <<GarbageLine>>) : k \in 0..(Len(file.text) - 1)}

DamageBaseline ==
    /\ aux_state = "written"
    /\ aux_file' \in DamagedFiles(aux_file)
    /\ aux_state' = "damaged"
    /\ UNCHANGED <<yaml_file, cache_log>>
    /\ UNCHANGED <<pbVars, sweepVars, awgVars, boardVars, streamerVars, coerceVars, measVars, dataVars, staticVars, translateVars, waitVars>>

SequenceDidntChange ==
    /\ Len(cache_log) < MaxCalls
    /\ LET r == SequenceDidntChangeResult(yaml_file, aux_file)
       IN  /\ aux_file' = r.aux
           /\ aux_state' = IF r.outcome = "raised" THEN aux_state ELSE "written"
           /\ cache_log' = Append(cache_log,
                                  [spec |-> Load(yaml_file).value,
                                   baseline |-> aux_state,
                                   outcome |-> r.outcome])
    /\ UNCHANGED yaml_file
    /\ UNCHANGED <<pbVars, sweepVars, awgVars, boardVars, streamerVars, coerceVars, measVars, dataVars, staticVars, translateVars, waitVars>>

-----------------------------------------------------------------------------
(* DynamicDeviceHandler: sweep tables *)

DeviceNames == {"d1", "d2"}
Addresses == {"a1", "a2"}
Params == {"amplitude", "frequency"}

\* Order of the keys of a configuration dictionary.
ParamOrder == <<"amplitude", "frequency">>

\* A configured value list: a bare list of values (channel = NoChannel) or a
\* pair of a channel name and a list of values.
NoChannel == "bare"
ValueLists(values, maxlen) == UNION {[1..k -> values] : k \in 0..maxlen}
SweepInputs(values, maxlen) ==
    [channel : {NoChannel, "channel_2"}, values : ValueLists(values, maxlen)]

RECURSIVE GCD(_, _)
GCD(a, b) == IF b = 0 THEN a ELSE GCD(b, a % b)

\* Exact rational numbers <<numerator, denominator>> in lowest terms.
Rat(n, d) == LET g == GCD(IF n < 0 THEN -n ELSE n, d) IN <<n \div g, d \div g>>

\* float(x) of a configured number.
Float(x) == <<x, 1>>

Linspace_WithoutEndpoint(start, stop, num) ==
    [k \in 1..num |->
        Rat(start[1] * stop[2] * num
              + (k - 1) * (stop[1] * start[2] - start[1] * stop[2]),
            start[2] * stop[2] * num)]

\* np.linspace(start, stop, num): num evenly spaced values, both ends
\* included when num > 1, only start when num = 1.
Linspace(start, stop, num) ==
    [k \in 1..num |->
        IF num = 1 THEN start
        ELSE Rat(start[1] * stop[2] * (num - 1)
                   + (k - 1) * (stop[1] * start[2] - start[1] * stop[2]),
                 start[2] * stop[2] * (num - 1))]

\* _get_channel_and_sweeplist: value_list[1] of a bare list with fewer than
\* two elements raises IndexError.
GetChannelAndSweeplist(value_list) ==
    IF value_list.channel = NoChannel
    THEN IF Len(value_list.values) < 2
         THEN [error |-> "IndexError", channel |-> "channel_1", values |-> <<>>]
         ELSE [error |-> "none", channel |-> "channel_1", values |-> value_list.values]
    ELSE [error |-> "none", channel |-> value_list.channel, values |-> value_list.values]

\* The dictionary that setdefault(parameter, {}) creates.
EmptyEntry == [empty |-> TRUE]

SetDefault(sweep_lists, parameter) ==
    IF sweep_lists = NoEntry THEN [q \in {parameter} |-> EmptyEntry]
    ELSE IF parameter \in DOMAIN sweep_lists THEN sweep_lists
    ELSE [q \in DOMAIN sweep_lists \cup {parameter} |->
            IF q = parameter THEN EmptyEntry ELSE sweep_lists[q]]

\* The sweep values stored for a list of floats that passed the length check.
SweepValues(floats, steps) ==
    IF Len(floats) = 2 THEN Linspace(floats[1], floats[2], steps) ELSE floats

\* Whether the list is an explicit list of the wrong length.
LengthMismatch(floats, steps) == Len(floats) # 2 /\ Len(floats) # steps

\* Body of the inner loop of _make_sweep_lists for one parameter.
MakeSweepEntry(sweep_lists, parameter, value_list, steps) ==
    LET cs == GetChannelAndSweeplist(value_list)
        floats == [i \in 1..Len(cs.values) |-> Float(cs.values[i])]
        defaulted == SetDefault(sweep_lists, parameter)
    IN  IF cs.error # "none"
        THEN [error |-> cs.error, sweep_lists |-> sweep_lists]
        ELSE IF LengthMismatch(floats, steps)
        THEN [error |-> "ValueError", sweep_lists |-> defaulted]
        ELSE [error |-> "none",
              sweep_lists |-> [defaulted EXCEPT ![parameter] =
                                  [channel |-> cs.channel,
                                   sweep_values |-> SweepValues(floats, steps)]]]

\* Inner loop of _make_sweep_lists: the parameters of one device.
RECURSIVE MakeDeviceSweepLists(_, _, _)
MakeDeviceSweepLists(device, steps, i) ==
    IF i > Len(ParamOrder) THEN [error |-> "none", device |-> device]
    ELSE IF ParamOrder[i] \notin DOMAIN device.sweep_config
    THEN MakeDeviceSweepLists(device, steps, i + 1)
    ELSE LET r == MakeSweepEntry(device.sweep_lists, ParamOrder[i],
                                 device.sweep_config[ParamOrder[i]], steps)
             updated == [device EXCEPT !.sweep_lists = r.sweep_lists]
         IN  IF r.error # "none" THEN [error |-> r.error, device |-> updated]
             ELSE MakeDeviceSweepLists(updated, steps, i + 1)

\* _make_sweep_lists: the devices in dictionary order; the first exception
\* leaves the remaining parameters and devices as they were.
RECURSIVE MakeSweepLists(_, _, _)
MakeSweepLists(devs, steps, i) ==
    IF i > Len(devs) THEN [error |-> "none", devices |-> devs]
    ELSE LET r == MakeDeviceSweepLists(devs[i], steps, 1)
             updated == [devs EXCEPT ![i] = r.device]
         IN  IF r.error # "none" THEN [error |-> r.error, devices |-> updated]
             ELSE MakeSweepLists(updated, steps, i + 1)

\* A requested device: name, address and configuration (parameter -> value
\* list).  A request lists device d1 before device d2.
RequestsOver(addresses, configs) ==
    LET Entry(n) == [name : {n}, address : addresses[n], config : configs]
    IN  {<<>>}
        \cup {<<e>> : e \in Entry("d1") \cup Entry("d2")}
        \cup {<<e1, e2>> : e1 \in Entry("d1"), e2 \in Entry("d2")}

IsRequested(device, requested) ==
    \E i \in 1..Len(requested) :
        requested[i].name = device.name /\ requested[i].address = device.address

\* close_superfluous_devices
CloseSuperfluousDevices(devs, requested) ==
    LET Keep(device) == IsRequested(device, requested)
    IN  SelectSeq(devs, Keep)

\* The loop of DynamicDeviceHandler.open_new_requested_devices: a device that
\* is not active yet is added without sweep_lists, an active one only gets
\* the new sweep_config.
RECURSIVE OpenLoop(_, _, _, _)
OpenLoop(current, devs, requested, i) ==
    IF i > Len(requested) THEN devs
    ELSE LET value == requested[i]
         IN  IF ~IsRequested(value, current)
             THEN OpenLoop(current,
                           Append(devs, [name |-> value.name,
                                         address |-> value.address,
                                         sweep_config |-> value.config,
                                         sweep_lists |-> NoEntry]),
                           requested, i + 1)
             ELSE OpenLoop(current,
                           [k \in 1..Len(devs) |->
                               IF devs[k].name = value.name
                               THEN [devs[k] EXCEPT !.sweep_config = value.config]
                               ELSE devs[k]],
                           requested, i + 1)

ResetStepCounter_KeepsCursor == current_dynamic_step

\* _reset_step_counter
ResetStepCounter == 0

NothingApplied == [n \in DeviceNames |-> NoEntry]

\* __init__({}, number_dynamic_steps = 1), as in main.parse_input
InitHandler ==
    /\ devices = <<>>
    /\ number_dynamic_steps = 1
    /\ current_dynamic_step = 0
    /\ applied = NothingApplied
    /\ build_error = "none"
    /\ step_error = "none"
    /\ prev_step = 0
    /\ last_op = "init"

\* main.parse_input: number_dynamic_steps is assigned, then update_devices
\* closes, opens, resets the cursor and builds the sweep tables.
UpdateDevices(steps, requested) ==
    /\ LET closed == CloseSuperfluousDevices(devices, requested)
           opened == OpenLoop(closed, closed, requested, 1)
           built == MakeSweepLists(opened, steps, 1)
       IN  /\ devices' = built.devices
           /\ build_error' = built.error
    /\ number_dynamic_steps' = steps
    /\ current_dynamic_step' = ResetStepCounter
    /\ applied' = NothingApplied
    /\ step_error' = "none"
    /\ prev_step' = current_dynamic_step
    /\ last_op' = "update_devices"
    /\ UNCHANGED <<pbVars, cacheVars, awgVars, boardVars, streamerVars, coerceVars, measVars, dataVars, staticVars, translateVars, waitVars>>

\* The configuration next_dynamic_step builds for one device, or the
\* exception of the lookup that fails.
CurrentConfig(device, step) ==
    IF device.sweep_lists = NoEntry
    THEN [error |-> "KeyError", config |-> NoEntry]
    ELSE IF \E q \in DOMAIN device.sweep_lists : device.sweep_lists[q] = EmptyEntry
    THEN [error |-> "KeyError", config |-> NoEntry]
    ELSE IF \E q \in DOMAIN device.sweep_lists :
                step + 1 > Len(device.sweep_lists[q].sweep_values)
    THEN [error |-> "IndexError", config |-> NoEntry]
    ELSE [error |-> "none",
          config |-> [q \in DOMAIN device.sweep_lists |->
                         <<device.sweep_lists[q].channel,
                           device.sweep_lists[q].sweep_values[step + 1]>>]]

\* The loop of next_dynamic_step over the devices in dictionary order.
RECURSIVE StepLoop(_, _, _, _)
StepLoop(devs, step, i, done) ==
    IF i > Len(devs) THEN [error |-> "none", applied |-> done]
    ELSE LET c == CurrentConfig(devs[i], step)
         IN  IF c.error # "none" THEN [error |-> c.error, applied |-> done]
             ELSE StepLoop(devs, step, i + 1,
                           [done EXCEPT ![devs[i].name] = c.config])

\* The cursor after a next_dynamic_step that raised no exception.
AdvanceCursor(step) == step + 1

NextDynamicStep ==
    /\ current_dynamic_step < MaxCursor
    /\ LET r == StepLoop(devices, current_dynamic_step, 1, NothingApplied)
       IN  /\ applied' = r.applied
           /\ step_error' = r.error
           /\ current_dynamic_step' =
                 IF r.error = "none" THEN AdvanceCursor(current_dynamic_step)
                 ELSE current_dynamic_step
    /\ prev_step' = current_dynamic_step
    /\ last_op' = "next_dynamic_step"
    /\ UNCHANGED <<devices, number_dynamic_steps, build_error>>
    /\ UNCHANGED <<pbVars, cacheVars, awgVars, boardVars, streamerVars, coerceVars, measVars, dataVars, staticVars, translateVars, waitVars>>

-----------------------------------------------------------------------------
(* PulseSequence: the sample grid of the AWG compiler *)

\* Times of the AWG compiler are counted in half sample periods, so that a
\* time may lie off the sample grid.  Angles are counted in quarter turns;
\* a pulse's frequency is its phase advance in quarter turns per step of
\* the block's time grid (self.time).

\* PulseSequence.__init__: num_points = int(samprate * duration * 1e-6)
NumPoints(duration) == duration \div 2

\* round(): to the nearest integer, a half to the nearest even integer.
Round(t) ==
    IF t % 2 = 0 THEN t \div 2
    ELSE LET k == (t - 1) \div 2 IN IF k % 2 = 0 THEN k ELSE k + 1

\* time_to_index: int(round(points)), a warning when points is off the grid.
TimeToIndex(time) == Round(time)

OffGrid(time) == time % 2 # 0

\* The indices (0-based) that the slice [start : stop] selects in an array
\* of length n: a negative bound counts from the end, both are clamped.
SliceBound(n, i) ==
    IF i < 0 THEN (IF i + n < 0 THEN 0 ELSE i + n)
    ELSE IF i > n THEN n ELSE i

SliceIndices(n, start, stop) ==
    {i \in 0..(n - 1) : SliceBound(n, start) <= i /\ i < SliceBound(n, stop)}

\* cos of an angle given in quarter turns.
Cos(q) == IF q % 4 = 0 THEN 1 ELSE IF q % 4 = 2 THEN -1 ELSE 0

\* Number of rows of seq.pulses per block.
NumChannels == 10

ZeroRow(n) == [i \in 1..n |-> 0]

\* np.zeros((numseqs, 10, num_points))
ZeroPulses(numseqs, n) ==
    [b \in 1..numseqs |-> [c \in 0..(NumChannels - 1) |-> ZeroRow(n)]]

\* add_pulse (inputtype "time", freq a (frequency, phase) pair): the values
\* amplitude * cos(2 pi frequency time[i] + phase) are stored at the indices
\* of the slice [start : start + duration] of the channel's row.
AddPulse(pulses, warning_counter, numseq, pulse, channel) ==
    LET start == TimeToIndex(pulse.start)
        duration == TimeToIndex(pulse.duration)
        warned == warning_counter
                  + (IF OffGrid(pulse.start) THEN 1 ELSE 0)
                  + (IF OffGrid(pulse.duration) THEN 1 ELSE 0)
        n == Len(pulses[numseq][0])
        window == SliceIndices(n, start, start + duration)
    IN  IF channel >= NumChannels
        THEN [error |-> "IndexError", pulses |-> pulses, warning_counter |-> warned]
        ELSE [error |-> "none",
              pulses |-> [pulses EXCEPT ![numseq][channel] =
                            [i \in 1..n |->
                               IF (i - 1) \in window
                               THEN pulse.amplitude
                                    * Cos(pulse.frequency * (i - 1) + pulse.phase)
                               ELSE @[i]]],
              warning_counter |-> warned]

\* The marker rows c .. c+3 packed into one row.
PackMarkers(block_pulses, c) ==
    [i \in 1..Len(block_pulses[c]) |->
        block_pulses[c][i] * 128 + block_pulses[c + 1][i] * 64
        + block_pulses[c + 2][i] * 32 + block_pulses[c + 3][i] * 16]

\* make: the four output rows of every block.
Final(pulses) ==
    [b \in 1..Len(pulses) |->
        <<pulses[b][0], PackMarkers(pulses[b], 1),
          pulses[b][5], PackMarkers(pulses[b], 6)>>]

\* make: the bundle saved to sequence.npz.
Make(pulses, sequencer, sequencernames) ==
    [final |-> Final(pulses),
     sequencer |-> sequencer,
     sequencernames |-> sequencernames,
     finalhash |-> [sha1 |-> <<Final(pulses), sequencer, sequencernames>>]]

-----------------------------------------------------------------------------
(* PulseSequenceYaml: inputs of the AWG compiler *)

AwgChannelNames == {"MW", "M1", "M2", "M3", "M4", "AUX"}

\* Iteration order of a block's channel dictionary.
AwgChannelOrder == <<"MW", "M1", "M2", "M3", "M4", "AUX">>

\* The caller-supplied channel mapping: channel name -> row of seq.pulses.
awg_channel_mapping ==
    [c \in AwgChannelNames |->
        CASE c = "MW" -> 0 [] c = "M1" -> 1 [] c = "M2" -> 2
          [] c = "M3" -> 3 [] c = "M4" -> 4 [] OTHER -> NumChannels]

\* Pulses anywhere around the block, on and off the sample grid.
AnalogPulses ==
    [start : (-2)..(2 * MaxSamples), duration : 0..(2 * MaxSamples),
     amplitude : 1..MaxAmplitude, frequency : 0..1, phase : 0..2]

\* Unmodulated pulses on the sample grid that start inside the block.
GridPulses ==
    [start : {2 * k : k \in 0..(MaxSamples - 1)},
     duration : {2 * k : k \in 1..MaxSamples},
     amplitude : 1..MaxAmplitude, frequency : {0}, phase : {0}]

\* Marker pulses: one sample long, amplitude 1.
MarkerPulses == {p \in GridPulses : p.duration = 2 /\ p.amplitude = 1}

NoPulses == [c \in AwgChannelNames |-> <<>>]

OnChannel(c, pulses) == [NoPulses EXCEPT ![c] = pulses]

AwgFile(t, order, repeats, b1, b2) ==
    [total_duration |-> t,
     sequencing_order |-> order,
     sequencing_repeats |-> repeats,
     blocks |-> [n \in BlockNames |-> IF n = "b1" THEN b1 ELSE b2]]

\* One analog pulse in a block of MaxSamples samples or up to three half
\* samples less;
\* two grid pulses on the analog channel; up to one marker pulse on each of
\* the four marker lines; and two-block files, block b2 defined or not, with
\* a pulse on the analog channel or on the channel beyond the array.
AwgSpecs ==
    {AwgFile(t, <<"b1">>, <<1>>, OnChannel("MW", <<p>>), NoEntry) :
        t \in (2 * MaxSamples - 3)..(2 * MaxSamples), p \in AnalogPulses}
    \cup {AwgFile(2 * MaxSamples, <<"b1">>, <<1>>, OnChannel("MW", <<p, q>>), NoEntry) :
        p \in GridPulses, q \in GridPulses}
    \cup {AwgFile(2 * MaxSamples, <<"b1">>, <<1>>,
                  [c \in AwgChannelNames |->
                      IF c \in DOMAIN m THEN m[c] ELSE <<>>], NoEntry) :
        m \in [{"M1", "M2", "M3", "M4"} -> {<<>>} \cup {<<p>> : p \in MarkerPulses}]}
    \cup {AwgFile(2 * MaxSamples, <<"b2", "b1", "b2">>, <<1, MaxRepeats, 0>>,
                  OnChannel(c, <<p>>), b2) :
        c \in {"MW", "AUX"}, p \in MarkerPulses,
        b2 \in {NoEntry} \cup {OnChannel("M1", <<q>>) : q \in MarkerPulses}}

-----------------------------------------------------------------------------
(* PulseSequenceYaml.translate_yaml_to_numeric_instructions *)

\* sorted(set(sequence_order))
SortedPulseBlocks(sequence_order) ==
    SelectSeq(<<"b1", "b2">>,
              LAMBDA b : \E i \in 1..Len(sequence_order) : sequence_order[i] = b)

\* for pulse in pulses.values(): seq.add_pulse(i, ...)
RECURSIVE AddChannelPulses(_, _, _, _)
AddChannelPulses(seq, numseq, channel, channel_pulses) ==
    IF seq.error # "none" \/ channel_pulses = <<>> THEN seq
    ELSE AddChannelPulses(
            AddPulse(seq.pulses, seq.warning_counter, numseq,
                     Head(channel_pulses), awg_channel_mapping[channel]),
            numseq, channel, Tail(channel_pulses))

\* for channel, pulses in sequence_instructions[block].items()
RECURSIVE AddBlockChannels(_, _, _, _)
AddBlockChannels(seq, numseq, block, c) ==
    IF seq.error # "none" \/ c > Len(AwgChannelOrder) THEN seq
    ELSE AddBlockChannels(
            AddChannelPulses(seq, numseq, AwgChannelOrder[c], block[AwgChannelOrder[c]]),
            numseq, block, c + 1)

\* for i, block in enumerate(sorted_pulse_blocks): a block that the file
\* does not define raises KeyError.
RECURSIVE TranslateBlocks(_, _, _, _)
TranslateBlocks(seq, sequence_instructions, sorted_pulse_blocks, i) ==
    IF seq.error # "none" \/ i > Len(sorted_pulse_blocks) THEN seq
    ELSE IF sequence_instructions.blocks[sorted_pulse_blocks[i]] = NoEntry
    THEN [seq EXCEPT !.error = "KeyError"]
    ELSE TranslateBlocks(
            AddBlockChannels(seq, i, sequence_instructions.blocks[sorted_pulse_blocks[i]], 1),
            sequence_instructions, sorted_pulse_blocks, i + 1)

\* The compilation of a file whose baseline the cache found changed.
TranslateYaml(sequence_instructions) ==
    LET sorted_pulse_blocks == SortedPulseBlocks(sequence_instructions.sequencing_order)
        seq == [error |-> "none",
                pulses |-> ZeroPulses(Len(sorted_pulse_blocks),
                                      NumPoints(sequence_instructions.total_duration)),
                warning_counter |-> 0]
        filled == TranslateBlocks(seq, sequence_instructions, sorted_pulse_blocks, 1)
    IN  [error |-> filled.error,
         pulses |-> filled.pulses,
         warning_counter |-> filled.warning_counter,
         bundle |-> IF filled.error # "none" THEN NoFile
                    ELSE FileOf(Make(filled.pulses,
                                     sequence_instructions.sequencing_repeats,
                                     sequence_instructions.sequencing_order))]

\* sequence.yaml is on disk, nothing is compiled and no bundle exists.
InitAwgCompiler ==
    /\ awg_spec \in AwgSpecs
    /\ awg_pc = "loaded"
    /\ awg_error = "none"
    /\ awg_pulses = <<>>
    /\ awg_warnings = 0
    /\ awg_bundle = NoFile

TranslateYamlToNumericInstructions ==
    /\ awg_pc = "loaded"
    /\ LET r == TranslateYaml(awg_spec)
       IN  /\ awg_error' = r.error
           /\ awg_pulses' = r.pulses
           /\ awg_warnings' = r.warning_counter
           /\ awg_bundle' = IF r.error = "none" THEN r.bundle ELSE awg_bundle
           /\ awg_pc' = IF r.error = "none" THEN "done" ELSE "failed"
    /\ UNCHANGED awg_spec
    /\ UNCHANGED <<pbVars, cacheVars, sweepVars, boardVars, streamerVars, coerceVars, measVars, dataVars, staticVars, translateVars, waitVars>>

-----------------------------------------------------------------------------
(* PulseBlaster.program_pb *)

\* Durations handed to program_pb and lengths handed to the board are
\* counted in units of half a nanosecond.
UnitsPerNs == 2
UnitsPerUs == 1000 * UnitsPerNs

\* PulseBlaster.__init__
samprate == 500
pb_min_instr_clk_cycles == 5

\* The minimum instruction time: pb_min_instr_clk_cycles clock periods of
\* 1000 / samprate ns each (10 ns).
MinimumInstructionTime == pb_min_instr_clk_cycles * ((1000 * UnitsPerNs) \div samprate)

\* The duration 0.01 us below which program_pb uses the short pulse feature.
ShortPulseLimit == UnitsPerUs \div 100

\* check_pulse_length_short: the duration is replaced by the option.
CheckPulseLengthShort(pulse_duration, current_option) == current_option

\* The if/elif chain of the short pulse feature: the bits added to the
\* segment's mask, or no branch taken.
ShortPulseBits(pulse_duration) ==
    LET ns == UnitsPerNs
    IN  IF 0 < pulse_duration /\ pulse_duration <= 3 * ns
        THEN [taken |-> TRUE, bits |-> Pow2(21)]
        ELSE IF 3 * ns < pulse_duration /\ pulse_duration <= 5 * ns
        THEN [taken |-> TRUE, bits |-> Pow2(22)]
        ELSE IF 5 * ns < pulse_duration /\ pulse_duration <= 7 * ns
        THEN [taken |-> TRUE, bits |-> Pow2(21) + Pow2(22)]
        ELSE IF 7 * ns < pulse_duration /\ pulse_duration <= 9 * ns
        THEN [taken |-> TRUE, bits |-> Pow2(23)]
        ELSE IF 9 * ns < pulse_duration /\ pulse_duration < 10 * ns
        THEN [taken |-> TRUE, bits |-> 0]
        ELSE [taken |-> FALSE, bits |-> 0]

\* spapi.pb_inst_pbonly(flags, inst, inst_data, length)
PbInst(flags, inst, inst_data, length) ==
    [call |-> "pb_inst_pbonly", flags |-> flags, inst |-> inst,
     inst_data |-> inst_data, length |-> length]

BoardCall(name) == [call |-> name, flags |-> 0, inst |-> "none", inst_data |-> 0, length |-> 0]

\* The loop of program_pb over zip(range(len(channel_bit_masks)),
\* pulse_duration_list).  channel_bit_mask is a local of program_pb: an
\* iteration that takes no branch of the chain leaves it as the iteration
\* before set it, and reading it before any iteration set it raises
\* UnboundLocalError.  The first instruction gets number 0.
RECURSIVE ProgramLoop(_, _, _, _, _, _)
ProgramLoop(channel_bit_masks, pulse_duration_list, i, bound, channel_bit_mask, calls) ==
    IF i >= Len(channel_bit_masks) \/ i >= Len(pulse_duration_list)
    THEN [error |-> "none", calls |-> calls]
    ELSE LET given == pulse_duration_list[i + 1]
             short == ShortPulseBits(given)
             normal == given >= ShortPulseLimit
             set == normal \/ short.taken
             mask == IF normal THEN channel_bit_masks[i + 1]
                     ELSE IF short.taken THEN channel_bit_masks[i + 1] + short.bits
                     ELSE channel_bit_mask
             pulse_duration == IF normal THEN given ELSE pb_min_instr_clk_cycles * UnitsPerUs
             t_min == 1
             length == pulse_duration * t_min
             inst == IF i = 0 THEN "CONTINUE"
                     ELSE IF i # Len(channel_bit_masks) - 1 THEN "CONTINUE"
                     ELSE "BRANCH"
         IN  IF ~(bound \/ set)
             THEN [error |-> "UnboundLocalError", calls |-> calls]
             ELSE ProgramLoop(channel_bit_masks, pulse_duration_list, i + 1, TRUE, mask,
                              Append(calls, PbInst(mask, inst, 0, length)))

\* program_pb: start_programming, the loop, the STOP instruction and
\* stop_programming; an exception ends the call where it is raised.  The
\* STOP instruction reads t_min, a local that only the loop body sets.
ProgramPb(channel_bit_masks, pulse_duration_list) ==
    LET loop == ProgramLoop(channel_bit_masks, pulse_duration_list, 0, FALSE, 0,
                            <<BoardCall("pb_start_programming")>>)
    IN  IF loop.error # "none" THEN loop
        ELSE IF channel_bit_masks = <<>> \/ pulse_duration_list = <<>>
        THEN [error |-> "UnboundLocalError", calls |-> loop.calls]
        ELSE [error |-> "none",
              calls |-> loop.calls
                        \o <<PbInst(0, "STOP", 0, pb_min_instr_clk_cycles * UnitsPerUs),
                             BoardCall("pb_stop_programming")>>]

\* The segment lists that PulseBlasterSequence.compile hands over: masks of
\* the mapped channel bits, durations in half nanoseconds.
ProgramMasks == {0, 1, 4, 5}

Segments(durations) == [mask : ProgramMasks, duration : durations]

SegmentLists(durations, n) == UNION {[1..k -> Segments(durations)] : k \in 0..n}

\* Up to two segments of any duration from below zero to above the short
\* pulse limit, and up to MaxSegments segments that are empty, a two-period
\* short pulse or of the limit's length.
Programs ==
    SegmentLists((-2)..(ShortPulseLimit + MaxOverLimit), 2)
    \cup SegmentLists({0, 4 * UnitsPerNs, ShortPulseLimit}, MaxSegments)

ProgramOf(segments) ==
    [channel_bit_masks |-> [i \in 1..Len(segments) |-> segments[i].mask],
     pulse_duration_list |-> [i \in 1..Len(segments) |-> segments[i].duration]]

InitBoard ==
    /\ program \in {ProgramOf(s) : s \in Programs}
    /\ board = <<>>
    /\ board_pc = "idle"
    /\ board_error = "none"

ProgramBoard ==
    /\ board_pc = "idle"
    /\ LET r == ProgramPb(program.channel_bit_masks, program.pulse_duration_list)
       IN  /\ board' = r.calls
           /\ board_error' = r.error
           /\ board_pc' = IF r.error = "none" THEN "programmed" ELSE "failed"
    /\ UNCHANGED program
    /\ UNCHANGED <<pbVars, cacheVars, sweepVars, awgVars, streamerVars, coerceVars, measVars, dataVars, staticVars, translateVars, waitVars>>

-----------------------------------------------------------------------------
(* PulseBlaster.load_sequence *)

\* The sequence file counts time in microseconds and program_pb takes the
\* compiled durations as they are; one tick of the model's sequence files
\* is 0.01 us.
TickLength == ShortPulseLimit

\* The sequence files that load_sequence is run on: block b1 alone.
LoadSequences ==
    {y \in YamlSequences \cup UncappedSequences : y.sequencing_order = <<"b1">>}

\* PulseBlasterSequence(self.channel_mapping)
InitLoadSequence ==
    /\ yaml_sequence \in LoadSequences
    /\ ps = EmptyPs
    /\ pb_pc = "constructed"
    /\ pb_error = "none"
    /\ compiled = NoProgram
    /\ program = [channel_bit_masks |-> <<>>, pulse_duration_list |-> <<>>]
    /\ board = <<>>
    /\ board_pc = "idle"
    /\ board_error = "none"

\* The last statement of load_sequence: program_pb on what compile returned.
LoadProgramPb ==
    /\ pb_pc = "compiled"
    /\ board_pc = "idle"
    /\ LET channel_bit_mask == compiled.channel_bits
           pulse_duration_list == [i \in 1..Len(compiled.durations) |->
                                      compiled.durations[i] * TickLength]
           r == ProgramPb(channel_bit_mask, pulse_duration_list)
       IN  /\ program' = [channel_bit_masks |-> channel_bit_mask,
                          pulse_duration_list |-> pulse_duration_list]
           /\ board' = r.calls
           /\ board_error' = r.error
           /\ board_pc' = IF r.error = "none" THEN "programmed" ELSE "failed"
    /\ UNCHANGED <<pbVars, cacheVars, sweepVars, awgVars, streamerVars, coerceVars, measVars, dataVars, staticVars, translateVars, waitVars>>

-----------------------------------------------------------------------------
(* PStreamer: load_sequence, writeDigSeq and run *)

\* Times of the PStreamer files are whole nanoseconds, the sampling unit of
\* writeDigSeq, so that its rounding branch leaves them as they are.
StreamerPulses ==
    [start : 0..MaxStart, duration : 1..MaxDuration, amplitude : {1, MaxAmplitude}]

PulseNames == {"pulse1", "pulse2", "first"}

\* The pulses of the one channel of the one block: a dictionary named
\* pulse1, pulse2 as writeDigSeq expects, or one pulse under another name.
StreamerChannels ==
    {[n \in PulseNames |-> IF n = "pulse1" THEN p ELSE NoEntry] : p \in StreamerPulses}
    \cup {[n \in PulseNames |-> IF n = "first" THEN p ELSE NoEntry] : p \in StreamerPulses}
    \cup {[n \in PulseNames |-> IF n = "pulse1" THEN p
                                ELSE IF n = "pulse2" THEN q ELSE NoEntry] :
            p \in {x \in StreamerPulses : x.amplitude = 1}, q \in StreamerPulses}

StreamerFiles ==
    [total_duration : {MaxTotal - 1},
     total_duration_type : {"float", "str"},
     sequencing_repeats : {1, MaxRepeats},
     pulses : StreamerChannels]

NoSequence == [missing |-> TRUE]

\* len(self.pulse_list[channel_key])
NumPulses(pulses) == Cardinality({n \in PulseNames : pulses[n] # NoEntry})

PulseKey(i) == IF i = 1 THEN "pulse1" ELSE IF i = 2 THEN "pulse2" ELSE "pulse3"

\* The loop of writeDigSeq over range(len(pulse_list[channel])): pulse
\* number i is looked up as "pulse" + str(i); a name that is not in the
\* dictionary gives None, whose .get raises AttributeError.
RECURSIVE WriteDigSeqLoop(_, _, _, _)
WriteDigSeqLoop(pulses, i, pointer_i, seq) ==
    IF i > NumPulses(pulses) THEN [error |-> "none", seq |-> seq, pointer |-> pointer_i]
    ELSE IF PulseKey(i) \notin PulseNames \/ pulses[PulseKey(i)] = NoEntry
    THEN [error |-> "AttributeError", seq |-> seq, pointer |-> pointer_i]
    ELSE LET pulse == pulses[PulseKey(i)]
         IN  IF pointer_i > pulse.start
             THEN [error |-> "PulseSequenceError", seq |-> seq, pointer |-> pointer_i]
             ELSE IF pulse.amplitude # 1
             THEN [error |-> "PulseSequenceError", seq |-> seq, pointer |-> pointer_i]
             ELSE WriteDigSeqLoop(pulses, i + 1, pulse.start + pulse.duration,
                                  seq \o <<<<pulse.start - pointer_i, 0>>,
                                           <<pulse.duration, 1>>>>)

\* writeDigSeq: the loop, the check against the total duration and the
\* final low level, the last two unless the total duration is 'ignore'.
WriteDigSeq(file) ==
    LET loop == WriteDigSeqLoop(file.pulses, 1, 0, <<>>)
        capped == file.total_duration_type # "str"
    IN  IF loop.error # "none" THEN loop
        ELSE IF capped /\ loop.pointer > file.total_duration
        THEN [error |-> "PulseSequenceError", seq |-> loop.seq, pointer |-> loop.pointer]
        ELSE IF capped
        THEN [loop EXCEPT !.seq = Append(loop.seq,
                                         <<file.total_duration - loop.pointer, 0>>)]
        ELSE loop

\* The body of the try block of load_sequence: the sequence of the block,
\* repeated sequencing_repeats times.
BuildSequence(file) ==
    LET r == WriteDigSeq(file)
    IN  IF r.error # "none" THEN [error |-> r.error, sequence |-> NoSequence]
        ELSE [error |-> "none",
              sequence |-> [digital |-> Repeat(r.seq, file.sequencing_repeats)]]

InitStreamer ==
    /\ streamer_file = NoEntry
    /\ streamer_sequence = NoSequence
    /\ streamer_error = "none"
    /\ streamer_log = <<>>
    /\ streamer_op = "init"
    /\ streamer_streamed = NoSequence
    /\ streamer_calls = 0

\* load_sequence on a sequence file: self.sequence is assigned at the end
\* of the try block; an AttributeError is logged and the call returns, any
\* other exception leaves the call.
StreamerLoadSequence(file) ==
    /\ streamer_calls < MaxCalls
    /\ LET r == BuildSequence(file)
       IN  /\ streamer_sequence' = IF r.error = "none" THEN r.sequence
                                   ELSE streamer_sequence
           /\ streamer_error' = IF r.error = "AttributeError" THEN "none" ELSE r.error
           /\ streamer_log' = IF r.error = "AttributeError"
                              THEN Append(streamer_log, r.error) ELSE streamer_log
    /\ streamer_file' = file
    /\ streamer_op' = "load_sequence"
    /\ streamer_calls' = streamer_calls + 1
    /\ UNCHANGED streamer_streamed
    /\ UNCHANGED <<pbVars, cacheVars, sweepVars, awgVars, boardVars, coerceVars, measVars, dataVars, staticVars, translateVars, waitVars>>

\* run: streams self.sequence; reading the attribute before any
\* load_sequence created it raises AttributeError, which is logged.
StreamerRun ==
    /\ streamer_op = "load_sequence"
    /\ IF streamer_sequence = NoSequence
       THEN /\ streamer_log' = Append(streamer_log, "AttributeError")
            /\ streamer_streamed' = NoSequence
       ELSE /\ streamer_log' = streamer_log
            /\ streamer_streamed' = streamer_sequence
    /\ streamer_error' = "none"
    /\ streamer_op' = "run"
    /\ UNCHANGED <<streamer_file, streamer_sequence, streamer_calls>>
    /\ UNCHANGED <<pbVars, cacheVars, sweepVars, awgVars, boardVars, coerceVars, measVars, dataVars, staticVars, translateVars, waitVars>>

-----------------------------------------------------------------------------
(* YAML scalars in the pulse fields: numbers and strings *)

\* A scalar of the sequence file: a number, or a string of characters.
Num(v) == [type |-> "float", value |-> v, text |-> <<>>]
Str(t) == [type |-> "str", value |-> 0, text |-> t]

DigitChars == <<"0", "1", "2", "3", "4", "5", "6", "7", "8", "9">>

IsDigit(c) == \E i \in 1..Len(DigitChars) : DigitChars[i] = c

DigitValue(c) == (CHOOSE i \in 1..Len(DigitChars) : DigitChars[i] = c) - 1

RECURSIVE ParseDigits(_)
ParseDigits(text) ==
    IF text = <<>> THEN 0
    ELSE 10 * ParseDigits(SubSeq(text, 1, Len(text) - 1)) + DigitValue(text[Len(text)])

\* Python's float(x): a number as it is, a string of digits parsed,
\* ValueError for any other string.
PyFloat(x) ==
    IF x.type = "float" THEN [error |-> "none", value |-> x.value]
    ELSE IF x.text # <<>> /\ \A i \in 1..Len(x.text) : IsDigit(x.text[i])
    THEN [error |-> "none", value |-> ParseDigits(x.text)]
    ELSE [error |-> "ValueError", value |-> 0]

\* Python's x + y: numbers are added, strings are concatenated, a number
\* and a string raise TypeError.
PyAdd(x, y) ==
    IF x.type = "float" /\ y.type = "float"
    THEN [error |-> "none", result |-> Num(x.value + y.value)]
    ELSE IF x.type = "str" /\ y.type = "str"
    THEN [error |-> "none", result |-> Str(x.text \o y.text)]
    ELSE [error |-> "TypeError", result |-> Num(0)]

\* Python's x - y: defined for numbers only.
PySub(x, y) ==
    IF x.type = "float" /\ y.type = "float"
    THEN [error |-> "none", result |-> Num(x.value - y.value)]
    ELSE [error |-> "TypeError", result |-> Num(0)]

\* The scalars a field is given as: a number, the same number as a string,
\* or a string that is no number.
ScalarsOf(values) ==
    {Num(v) : v \in values}
    \cup {Str(<<DigitChars[v + 1]>>) : v \in values}
    \cup {Str(<<"x">>)}

CoercePulses ==
    [start : ScalarsOf(0..MaxStart), duration : ScalarsOf(1..MaxDuration),
     amplitude : ScalarsOf({1})]

NotRun == [missing |-> TRUE]

\* PulseBlasterSequence on a block with the pulse on channel A:
\* _append_event adds start and duration, _get_event_durations subtracts
\* the two event times; the fields are used as the file gives them.
CoercePulseBlasterOutcome(pulse) ==
    LET end == PyAdd(pulse.start, pulse.duration)
        gap == PySub(end.result, pulse.start)
    IN  IF end.error # "none" THEN [error |-> end.error, program |-> NoProgram]
        ELSE IF gap.error # "none" THEN [error |-> gap.error, program |-> NoProgram]
        ELSE LET r == CompileBlock(
                        [c \in Channels |->
                            IF c = "A" THEN <<[start |-> pulse.start.value,
                                               duration |-> pulse.duration.value]>>
                            ELSE <<>>],
                        MaxTotal)
             IN  [error |-> r.error,
                  program |-> [channel_bits |-> r.channel_bits,
                               durations |-> r.durations]]

\* translate_yaml_to_numeric_instructions on a block with the pulse on the
\* analog channel: every field goes through float() before add_pulse.
CoerceAwgOutcome(pulse) ==
    LET start == PyFloat(pulse.start)
        duration == PyFloat(pulse.duration)
        amplitude == PyFloat(pulse.amplitude)
    IN  IF start.error # "none" \/ duration.error # "none" \/ amplitude.error # "none"
        THEN [error |-> "ValueError", bundle |-> NoFile]
        ELSE LET r == TranslateYaml(
                        AwgFile(2 * MaxSamples, <<"b1">>, <<1>>,
                                OnChannel("MW", <<[start |-> start.value,
                                                   duration |-> duration.value,
                                                   amplitude |-> amplitude.value,
                                                   frequency |-> 0,
                                                   phase |-> 0]>>),
                                NoEntry))
             IN  [error |-> r.error, bundle |-> r.bundle]

InitCoerce ==
    /\ coerce_pulse \in CoercePulses
    /\ coerce_pb = NotRun
    /\ coerce_awg = NotRun

CoercePulseBlaster ==
    /\ coerce_pb = NotRun
    /\ coerce_pb' = CoercePulseBlasterOutcome(coerce_pulse)
    /\ UNCHANGED <<coerce_pulse, coerce_awg>>
    /\ UNCHANGED <<pbVars, cacheVars, sweepVars, awgVars, boardVars, streamerVars, measVars, dataVars, staticVars, translateVars, waitVars>>

CoerceAwg ==
    /\ coerce_awg = NotRun
    /\ coerce_awg' = CoerceAwgOutcome(coerce_pulse)
    /\ UNCHANGED <<coerce_pulse, coerce_pb>>
    /\ UNCHANGED <<pbVars, cacheVars, sweepVars, awgVars, boardVars, streamerVars, measVars, dataVars, staticVars, translateVars, waitVars>>

-----------------------------------------------------------------------------
(* run_measurement *)

\* MockCam.close passes; DAQ.close closes self.daq_task, an attribute that
\* only DAQ.open creates.
SensorClasses == {"MockCam", "DAQ"}

\* The exceptions the compilers raise, all subclasses of Exception, and the
\* SystemExit of PulseBlaster.error_catcher.
CompilerErrors == {"KeyError", "TypeError", "ValueError", "PulseSequenceError",
                   "UnboundLocalError"}

LoadOutcomes == {"none", "SystemExit"} \cup CompilerErrors

InitMeasurement ==
    /\ meas_sensor \in SensorClasses
    /\ meas_load \in LoadOutcomes
    /\ meas_size \in [iterator_size : 1..MaxSteps, averages : 1..MaxAverages]
    /\ meas_pc = "start"
    /\ meas_itervalue = 0
    /\ meas_avg = 0
    /\ return_status = "all_fail"
    /\ meas_exception = "none"
    /\ sensor_opened = FALSE
    /\ sensor_closed = FALSE
    /\ synchroniser_closed = FALSE

\* set_all_params, the data container, synchroniser.open and stop.
MeasurementBegin ==
    /\ meas_pc = "start"
    /\ meas_pc' = "load_sequence"
    /\ UNCHANGED <<meas_sensor, meas_load, meas_size, meas_itervalue, meas_avg,
                   return_status, meas_exception, sensor_opened, sensor_closed,
                   synchroniser_closed>>
    /\ UNCHANGED <<pbVars, cacheVars, sweepVars, awgVars, boardVars, streamerVars,
                   coerceVars, dataVars, staticVars, translateVars, waitVars>>

\* synchroniser.load_sequence(): an Exception goes to the except clause,
\* a SystemExit passes it and goes to the finally clause.
MeasurementLoadSequence ==
    /\ meas_pc = "load_sequence"
    /\ meas_exception' = meas_load
    /\ meas_pc' = IF meas_load = "none" THEN "run"
                  ELSE IF meas_load \in CompilerErrors THEN "except"
                  ELSE "finally"
    /\ UNCHANGED <<meas_sensor, meas_load, meas_size, meas_itervalue, meas_avg,
                   return_status, sensor_opened, sensor_closed, synchroniser_closed>>
    /\ UNCHANGED <<pbVars, cacheVars, sweepVars, awgVars, boardVars, streamerVars,
                   coerceVars, dataVars, staticVars, translateVars, waitVars>>

\* synchroniser.run() and sensor.open()
MeasurementRun ==
    /\ meas_pc = "run"
    /\ sensor_opened' = TRUE
    /\ meas_pc' = "loop"
    /\ UNCHANGED <<meas_sensor, meas_load, meas_size, meas_itervalue, meas_avg,
                   return_status, meas_exception, sensor_closed, synchroniser_closed>>
    /\ UNCHANGED <<pbVars, cacheVars, sweepVars, awgVars, boardVars, streamerVars,
                   coerceVars, dataVars, staticVars, translateVars, waitVars>>

\* One pass of the inner loop: acquire_data and update_data; after the last
\* average of the last step return_status becomes "success".
MeasurementAcquire ==
    /\ meas_pc = "loop"
    /\ LET last_avg == meas_avg = meas_size.averages - 1
           last_iter == meas_itervalue = meas_size.iterator_size - 1
       IN  /\ meas_avg' = IF last_avg THEN 0 ELSE meas_avg + 1
           /\ meas_itervalue' = IF last_avg /\ ~last_iter THEN meas_itervalue + 1
                                ELSE meas_itervalue
           /\ return_status' = IF last_avg /\ last_iter THEN "success" ELSE return_status
           /\ meas_pc' = IF last_avg /\ last_iter THEN "finally" ELSE "loop"
    /\ UNCHANGED <<meas_sensor, meas_load, meas_size, meas_exception, sensor_opened,
                   sensor_closed, synchroniser_closed>>
    /\ UNCHANGED <<pbVars, cacheVars, sweepVars, awgVars, boardVars, streamerVars,
                   coerceVars, dataVars, staticVars, translateVars, waitVars>>

\* except Exception: the exception is logged and ends here.
MeasurementExcept ==
    /\ meas_pc = "except"
    /\ return_status' = "failed"
    /\ meas_exception' = "none"
    /\ meas_pc' = "finally"
    /\ UNCHANGED <<meas_sensor, meas_load, meas_size, meas_itervalue, meas_avg,
                   sensor_opened, sensor_closed, synchroniser_closed>>
    /\ UNCHANGED <<pbVars, cacheVars, sweepVars, awgVars, boardVars, streamerVars,
                   coerceVars, dataVars, staticVars, translateVars, waitVars>>

\* finally: sensor.close().  An exception raised here replaces the one in
\* flight and leaves run_measurement, skipping the rest of the clause.
MeasurementCloseSensor ==
    /\ meas_pc = "finally"
    /\ IF meas_sensor = "DAQ" /\ ~sensor_opened
       THEN /\ meas_exception' = "AttributeError"
            /\ meas_pc' = "escaped"
            /\ UNCHANGED sensor_closed
       ELSE /\ sensor_closed' = TRUE
            /\ meas_pc' = "close_synchroniser"
            /\ UNCHANGED meas_exception
    /\ UNCHANGED <<meas_sensor, meas_load, meas_size, meas_itervalue, meas_avg,
                   return_status, sensor_opened, synchroniser_closed>>
    /\ UNCHANGED <<pbVars, cacheVars, sweepVars, awgVars, boardVars, streamerVars,
                   coerceVars, dataVars, staticVars, translateVars, waitVars>>

\* finally: synchroniser.close()
MeasurementCloseSynchroniser ==
    /\ meas_pc = "close_synchroniser"
    /\ synchroniser_closed' = TRUE
    /\ meas_pc' = "save"
    /\ UNCHANGED <<meas_sensor, meas_load, meas_size, meas_itervalue, meas_avg,
                   return_status, meas_exception, sensor_opened, sensor_closed>>
    /\ UNCHANGED <<pbVars, cacheVars, sweepVars, awgVars, boardVars, streamerVars,
                   coerceVars, dataVars, staticVars, translateVars, waitVars>>

\* The rest of the finally clause, and then either the exception in flight
\* leaves run_measurement or return_status is returned.
MeasurementSaveAndReturn ==
    /\ meas_pc = "save"
    /\ meas_pc' = IF meas_exception # "none" THEN "escaped" ELSE "returned"
    /\ UNCHANGED <<meas_sensor, meas_load, meas_size, meas_itervalue, meas_avg,
                   return_status, meas_exception, sensor_opened, sensor_closed,
                   synchroniser_closed>>
    /\ UNCHANGED <<pbVars, cacheVars, sweepVars, awgVars, boardVars, streamerVars,
                   coerceVars, dataVars, staticVars, translateVars, waitVars>>

-----------------------------------------------------------------------------
(* Data: set_dims_from_sensor and create_array *)

NoArray == [missing |-> TRUE]

\* An attribute that no setter has created yet.
Unset == [unset |-> TRUE]

RoiShapes == UNION {[1..k -> 1..MaxRoiSide] : k \in 1..MaxRoiDims}

AveragingModes == {"spread", "sum", "mean"}

\* Data(configuration) with the keys averaging_mode, dynamic_steps,
\* live_compression and reference_channels: roi_shape and
\* number_measurements are left for the sensor to set.
DataConfigurations ==
    [averaging_mode : AveragingModes,
     number_dynamic_steps : {1, MaxSteps},
     live_compression : BOOLEAN,
     reference_channels : 1..MaxChannels,
     set_number_measurements : {FALSE},
     set_roi_shape : {FALSE},
     number_measurements : {0},
     roi_shape : {<<>>}]

Sensors == [roi_shape : RoiShapes, number_measurements : 0..MaxMeasurements]

\* measurements_per_channel != int(measurements_per_channel) for the
\* quotient number_measurements / reference_channels
NotWhole(number_measurements, reference_channels) ==
    (number_measurements \div reference_channels) * reference_channels
        # number_measurements

SpreadDims_Unsplit(self, roi_shape) ==
    <<self.reference_channels, self.number_dynamic_steps, self.number_measurements>>
    \o roi_shape

\* data_array_dim of the 'spread' branch
SpreadDims(self, roi_shape) ==
    <<self.reference_channels, self.number_dynamic_steps,
      self.number_measurements \div self.reference_channels>> \o roi_shape

\* data_array_dim of the 'sum' branch
SumDims(self, roi_shape) ==
    <<self.reference_channels, self.number_dynamic_steps, 1>> \o roi_shape

\* create_array: the outcome and the attributes it leaves; reading an
\* attribute that was never set raises AttributeError.
CreateArrayOutcome(self) ==
    LET compressed == IF self.live_compression
                      THEN [self EXCEPT !.roi_shape = <<1>>, !.set_roi_shape = TRUE]
                      ELSE self
        fails(e) == [error |-> e, array |-> NoArray, self |-> compressed]
    IN  IF compressed.averaging_mode = "sum"
        THEN IF ~compressed.set_roi_shape THEN fails("AttributeError")
             ELSE [error |-> "none",
                   array |-> [shape |-> SumDims(compressed, compressed.roi_shape)],
                   self |-> compressed]
        ELSE IF compressed.averaging_mode = "spread"
        THEN IF ~compressed.set_number_measurements THEN fails("AttributeError")
             ELSE IF NotWhole(compressed.number_measurements,
                              compressed.reference_channels)
             THEN fails("ValueError")
             ELSE IF ~compressed.set_roi_shape THEN fails("AttributeError")
             ELSE [error |-> "none",
                   array |-> [shape |-> SpreadDims(compressed, compressed.roi_shape)],
                   self |-> compressed]
        ELSE fails("ValueError")

InitData ==
    /\ data_self \in DataConfigurations
    /\ data_sensor \in Sensors
    /\ data_array = NoArray
    /\ data_error = "none"
    /\ data_pc = "configured"

SetDimsFromSensor ==
    /\ data_pc = "configured"
    /\ data_self' = [data_self EXCEPT !.roi_shape = data_sensor.roi_shape,
                                      !.set_roi_shape = TRUE,
                                      !.number_measurements = data_sensor.number_measurements,
                                      !.set_number_measurements = TRUE]
    /\ data_pc' = "dims_set"
    /\ UNCHANGED <<data_sensor, data_array, data_error>>
    /\ UNCHANGED <<pbVars, cacheVars, sweepVars, awgVars, boardVars, streamerVars,
                   coerceVars, measVars, staticVars, translateVars, waitVars>>

CreateArray ==
    /\ data_pc \in {"configured", "dims_set"}
    /\ LET r == CreateArrayOutcome(data_self)
       IN  /\ data_self' = r.self
           /\ data_array' = r.array
           /\ data_error' = r.error
           /\ data_pc' = IF r.error = "none" THEN "created" ELSE "failed"
    /\ UNCHANGED data_sensor
    /\ UNCHANGED <<pbVars, cacheVars, sweepVars, awgVars, boardVars, streamerVars,
                   coerceVars, measVars, staticVars, translateVars, waitVars>>

-----------------------------------------------------------------------------
(* DeviceHandler: the static devices *)

StaticConfigs == [frequency : 0..MaxValue]

\* A requested_devices dictionary: each device under either address.
StaticRequests ==
    RequestsOver([n \in DeviceNames |-> Addresses], StaticConfigs)

\* The loop of DeviceHandler.open_new_requested_devices: a device that is
\* not active is created from the requested entry, the SignalSource
\* keeping the configuration it is constructed with; for an active one the
\* handler's entry gets the requested configuration.
RECURSIVE StaticOpenLoop(_, _, _, _)
StaticOpenLoop(current, devs, requested, i) ==
    IF i > Len(requested) THEN devs
    ELSE LET value == requested[i]
         IN  IF ~IsRequested(value, current)
             THEN StaticOpenLoop(current,
                                 Append(devs, [name |-> value.name,
                                               address |-> value.address,
                                               config |-> value.config,
                                               device |-> [configuration |-> value.config]]),
                                 requested, i + 1)
             ELSE StaticOpenLoop(current,
                                 [k \in 1..Len(devs) |->
                                     IF devs[k].name = value.name
                                     THEN [devs[k] EXCEPT !.config = value.config]
                                     ELSE devs[k]],
                                 requested, i + 1)

InitStaticHandler ==
    /\ static_requested = <<>>
    /\ static_devices = <<>>
    /\ static_applied = NothingApplied
    /\ static_op = "init"

StaticUpdateDevices(requested_devices) ==
    /\ static_requested' = requested_devices
    /\ LET closed == CloseSuperfluousDevices(static_devices, requested_devices)
       IN  static_devices' = StaticOpenLoop(closed, closed, requested_devices, 1)
    /\ static_op' = "update_devices"
    /\ UNCHANGED static_applied
    /\ UNCHANGED <<pbVars, cacheVars, sweepVars, awgVars, boardVars, streamerVars,
                   coerceVars, measVars, dataVars, translateVars, waitVars>>

\* set_all_params: set_values() of every active device applies the
\* device's own configuration.
SetAllParams ==
    /\ static_applied' =
          [n \in DeviceNames |->
              IF \E k \in 1..Len(static_devices) : static_devices[k].name = n
              THEN LET k == CHOOSE k \in 1..Len(static_devices) :
                                static_devices[k].name = n
                   IN  static_devices[k].device.configuration
              ELSE NoEntry]
    /\ static_op' = "set_all_params"
    /\ UNCHANGED <<static_requested, static_devices>>
    /\ UNCHANGED <<pbVars, cacheVars, sweepVars, awgVars, boardVars, streamerVars,
                   coerceVars, measVars, dataVars, translateVars, waitVars>>

-----------------------------------------------------------------------------
(* PulseSequenceYaml: repeated calls with the change-detection cache *)

\* The two-block files: some compile, some reference an undefined block
\* (KeyError) or a channel beyond the sample array (IndexError).
TranslateSpecs == {spec \in AwgSpecs : Len(spec.sequencing_order) = 3}

\* sequence.aux holds the dump of the document that the last cache check
\* loaded from sequence.yaml.
BaselineOf(sequence_instructions) == [document |-> sequence_instructions]

InitTranslate ==
    /\ awg_spec \in TranslateSpecs
    /\ awg_pc = "loaded"
    /\ awg_error = "none"
    /\ awg_pulses = <<>>
    /\ awg_warnings = 0
    /\ awg_bundle = NoFile
    /\ awg_baseline = NoFile
    /\ awg_calls = 0

\* The sequence generator rewrites sequence.yaml.
RewriteSequenceFile ==
    /\ awg_pc # "loaded"
    /\ \E spec \in TranslateSpecs : spec # awg_spec /\ awg_spec' = spec
    /\ awg_pc' = "loaded"
    /\ UNCHANGED <<awg_error, awg_pulses, awg_warnings, awg_bundle>>
    /\ UNCHANGED translateVars
    /\ UNCHANGED <<pbVars, cacheVars, sweepVars, boardVars, streamerVars, coerceVars,
                   measVars, dataVars, staticVars, waitVars>>

\* translate_yaml_to_numeric_instructions: _sequence_didnt_change compares
\* the file with the baseline and persists the file as the new baseline;
\* the call returns when they were equal and compiles otherwise.  A
\* compilation that raises leaves sequence.npz as it was.
TranslateYamlCall ==
    /\ awg_calls < MaxCalls + 1
    /\ awg_calls' = awg_calls + 1
    /\ awg_baseline' = BaselineOf(awg_spec)
    /\ IF awg_baseline # NoFile /\ awg_baseline.document = awg_spec
       THEN /\ awg_pc' = "skipped"
            /\ awg_error' = "none"
            /\ UNCHANGED <<awg_pulses, awg_warnings, awg_bundle>>
       ELSE LET r == TranslateYaml(awg_spec)
            IN  /\ awg_error' = r.error
                /\ awg_pulses' = r.pulses
                /\ awg_warnings' = r.warning_counter
                /\ awg_bundle' = IF r.error = "none" THEN r.bundle ELSE awg_bundle
                /\ awg_pc' = IF r.error = "none" THEN "done" ELSE "failed"
    /\ UNCHANGED awg_spec
    /\ UNCHANGED <<pbVars, cacheVars, sweepVars, boardVars, streamerVars, coerceVars,
                   measVars, dataVars, staticVars, waitVars>>

-----------------------------------------------------------------------------
(* main: the waiting-room watcher thread and the parse_input worker thread *)

WaitingRoomPaths == {"m1.yaml", "m2.yaml"}

\* main(): a cleared Event, an empty Queue, the observer and the worker
\* started.
InitWaitingRoom ==
    /\ queue = <<>>
    /\ event_thread = FALSE
    /\ watcher_pc = "idle"
    /\ worker_pc = "loop"
    /\ instruction_file = <<>>
    /\ file_events = 0
    /\ processed = 0

\* _on_closed (and _on_modified, _on_created, _on_moved): queue.put
OnClosedPut ==
    /\ watcher_pc = "idle"
    /\ file_events < MaxEvents
    /\ \E src_path \in WaitingRoomPaths : queue' = Append(queue, src_path)
    /\ file_events' = file_events + 1
    /\ watcher_pc' = "put"
    /\ UNCHANGED <<event_thread, worker_pc, instruction_file, processed>>
    /\ UNCHANGED <<pbVars, cacheVars, sweepVars, awgVars, boardVars, streamerVars,
                   coerceVars, measVars, dataVars, staticVars, translateVars>>

\* event_thread.set(): the flag becomes true and a thread blocked in wait
\* is notified; a notified thread returns from wait whatever the flag is
\* by then.
OnClosedSet ==
    /\ watcher_pc = "put"
    /\ event_thread' = TRUE
    /\ worker_pc' = IF worker_pc = "waiting" THEN "woken" ELSE worker_pc
    /\ watcher_pc' = "set"
    /\ UNCHANGED <<queue, instruction_file, file_events, processed>>
    /\ UNCHANGED <<pbVars, cacheVars, sweepVars, awgVars, boardVars, streamerVars,
                   coerceVars, measVars, dataVars, staticVars, translateVars>>

\* event_thread.clear()
OnClosedClear ==
    /\ watcher_pc = "set"
    /\ event_thread' = FALSE
    /\ watcher_pc' = "idle"
    /\ UNCHANGED <<queue, worker_pc, instruction_file, file_events, processed>>
    /\ UNCHANGED <<pbVars, cacheVars, sweepVars, awgVars, boardVars, streamerVars,
                   coerceVars, measVars, dataVars, staticVars, translateVars>>

\* parse_input: if queue.empty()
QueueEmptyCheck ==
    /\ worker_pc = "loop"
    /\ worker_pc' = IF queue = <<>> THEN "ready" ELSE "busy"
    /\ UNCHANGED <<queue, event_thread, watcher_pc, instruction_file, file_events,
                   processed>>
    /\ UNCHANGED <<pbVars, cacheVars, sweepVars, awgVars, boardVars, streamerVars,
                   coerceVars, measVars, dataVars, staticVars, translateVars>>

\* parse_input: the devices are closed, the status is set to ready and
\* event_thread.wait() is called: it returns at once when the flag is set
\* and blocks otherwise.
EventWait ==
    /\ worker_pc = "ready"
    /\ worker_pc' = IF event_thread THEN "busy" ELSE "waiting"
    /\ UNCHANGED <<queue, event_thread, watcher_pc, instruction_file, file_events,
                   processed>>
    /\ UNCHANGED <<pbVars, cacheVars, sweepVars, awgVars, boardVars, streamerVars,
                   coerceVars, measVars, dataVars, staticVars, translateVars>>

\* The notified worker returns from event_thread.wait().
EventWaitReturns ==
    /\ worker_pc = "woken"
    /\ worker_pc' = "busy"
    /\ UNCHANGED <<queue, event_thread, watcher_pc, instruction_file, file_events,
                   processed>>
    /\ UNCHANGED <<pbVars, cacheVars, sweepVars, awgVars, boardVars, streamerVars,
                   coerceVars, measVars, dataVars, staticVars, translateVars>>

\* parse_input: _set_busy and queue.get(), which blocks on an empty queue.
QueueGet ==
    /\ worker_pc = "busy"
    /\ queue # <<>>
    /\ instruction_file' = <<Head(queue)>>
    /\ queue' = Tail(queue)
    /\ worker_pc' = "measure"
    /\ UNCHANGED <<event_thread, watcher_pc, file_events, processed>>
    /\ UNCHANGED <<pbVars, cacheVars, sweepVars, awgVars, boardVars, streamerVars,
                   coerceVars, measVars, dataVars, staticVars, translateVars>>

\* parse_input: the rest of the try block; an exception is logged and the
\* loop goes on.
ProcessInstructionFile ==
    /\ worker_pc = "measure"
    /\ processed' = processed + 1
    /\ instruction_file' = <<>>
    /\ worker_pc' = "loop"
    /\ UNCHANGED <<queue, event_thread, watcher_pc, file_events>>
    /\ UNCHANGED <<pbVars, cacheVars, sweepVars, awgVars, boardVars, streamerVars,
                   coerceVars, measVars, dataVars, staticVars, translateVars>>

-----------------------------------------------------------------------------
(* Specifications: one per component, the other components at rest *)

PulseBlasterAtRest ==
    /\ yaml_sequence = [total_duration |-> MaxTotal,
                        total_duration_type |-> "float",
                        sequencing_order |-> <<>>,
                        sequencing_repeats |-> <<>>,
                        blocks |-> [n \in BlockNames |-> NoEntry]]
    /\ ps = EmptyPs
    /\ pb_pc = "idle"
    /\ pb_error = "none"
    /\ compiled = NoProgram

CacheAtRest ==
    /\ yaml_file = <<>>
    /\ aux_file = NoFile
    /\ aux_state = "missing"
    /\ cache_log = <<>>

HandlerAtRest == InitHandler

AwgCompilerAtRest ==
    /\ awg_baseline = NoFile
    /\ awg_calls = 0
    /\ awg_spec = AwgFile(0, <<>>, <<>>, NoEntry, NoEntry)
    /\ awg_pc = "idle"
    /\ awg_error = "none"
    /\ awg_pulses = <<>>
    /\ awg_warnings = 0
    /\ awg_bundle = NoFile

BoardAtRest ==
    /\ program = ProgramOf(<<>>)
    /\ board = <<>>
    /\ board_pc = "off"
    /\ board_error = "none"

StreamerAtRest == InitStreamer

CoerceAtRest ==
    /\ coerce_pulse = [start |-> Num(0), duration |-> Num(1), amplitude |-> Num(1)]
    /\ coerce_pb = NotRun
    /\ coerce_awg = NotRun

MeasurementAtRest ==
    /\ meas_sensor = "MockCam"
    /\ meas_load = "none"
    /\ meas_size = [iterator_size |-> 1, averages |-> 1]
    /\ meas_pc = "idle"
    /\ meas_itervalue = 0
    /\ meas_avg = 0
    /\ return_status = "all_fail"
    /\ meas_exception = "none"
    /\ sensor_opened = FALSE
    /\ sensor_closed = FALSE
    /\ synchroniser_closed = FALSE

DataAtRest ==
    /\ data_self = Unset
    /\ data_sensor = Unset
    /\ data_array = NoArray
    /\ data_error = "none"
    /\ data_pc = "idle"

StaticHandlerAtRest == InitStaticHandler

WaitingRoomAtRest == InitWaitingRoom

PeripheryAtRest ==
    /\ StreamerAtRest /\ CoerceAtRest /\ MeasurementAtRest /\ DataAtRest
    /\ StaticHandlerAtRest
    /\ WaitingRoomAtRest

OthersAtRest == AwgCompilerAtRest /\ BoardAtRest /\ PeripheryAtRest

Steps == 1..MaxSteps

\* The requests of the specification of the stepper: a device sweeps
\* nothing, its frequency between two end points, or its frequency between
\* two end points and its amplitude over an explicit list.
EndPoints == [channel |-> NoChannel, values |-> <<0, MaxValue>>]
ExplicitList == [channel |-> "channel_2", values |-> [i \in 1..MaxListLen |-> i]]

StepperConfigs ==
    {[q \in {} |-> EndPoints],
     [q \in {"frequency"} |-> EndPoints],
     [q \in Params |-> IF q = "frequency" THEN EndPoints ELSE ExplicitList]}

\* Device d1 may come back under another address, d2 keeps its address.
StepperAddresses == [n \in DeviceNames |-> IF n = "d1" THEN Addresses ELSE {"a1"}]

StepperRequests == RequestsOver(StepperAddresses, StepperConfigs)

\* The requests of the specification of a single build: one device with one
\* swept parameter, every value list within the bounds.
BuildInputs == SweepInputs(0..MaxValue, MaxListLen)

BuildRequests ==
    {<<[name |-> "d1", address |-> a, config |-> [q \in {"frequency"} |-> v]]>> :
        a \in Addresses, v \in BuildInputs}

InitPB == InitPulseBlaster /\ CacheAtRest /\ HandlerAtRest /\ OthersAtRest

NextPB ==
    \/ ParsePulseSequenceFile
    \/ Compile

SpecPB == InitPB /\ [][NextPB]_vars

InitCacheSpec == InitCache /\ PulseBlasterAtRest /\ HandlerAtRest /\ OthersAtRest

NextCache ==
    \/ WriteSequenceFile
    \/ DamageBaseline
    \/ SequenceDidntChange

SpecCache == InitCacheSpec /\ [][NextCache]_vars

InitStepper == InitHandler /\ PulseBlasterAtRest /\ CacheAtRest /\ OthersAtRest

Rebuild == \E steps \in Steps, requested \in StepperRequests :
               UpdateDevices(steps, requested)

NextStepper ==
    \/ Rebuild
    \/ NextDynamicStep

SpecStepper == InitStepper /\ [][NextStepper]_vars

\* A single build on a handler without devices.
Build == /\ last_op = "init"
         /\ \E steps \in Steps, requested \in BuildRequests :
               UpdateDevices(steps, requested)

NextBuild == Build

SpecBuild == InitStepper /\ [][NextBuild]_vars

InitAwg ==
    /\ InitAwgCompiler
    /\ awg_baseline = NoFile
    /\ awg_calls = 0
    /\ PulseBlasterAtRest /\ CacheAtRest /\ HandlerAtRest /\ BoardAtRest
    /\ PeripheryAtRest

NextAwg == TranslateYamlToNumericInstructions

SpecAwg == InitAwg /\ [][NextAwg]_vars

InitBoardSpec ==
    /\ InitBoard
    /\ PulseBlasterAtRest /\ CacheAtRest /\ HandlerAtRest /\ AwgCompilerAtRest
    /\ PeripheryAtRest

NextBoard == ProgramBoard

SpecBoard == InitBoardSpec /\ [][NextBoard]_vars

InitLoad ==
    /\ InitLoadSequence
    /\ CacheAtRest /\ HandlerAtRest /\ AwgCompilerAtRest /\ PeripheryAtRest

InitStreamerSpec ==
    /\ InitStreamer
    /\ PulseBlasterAtRest /\ CacheAtRest /\ HandlerAtRest
    /\ AwgCompilerAtRest /\ BoardAtRest /\ CoerceAtRest /\ MeasurementAtRest
    /\ DataAtRest /\ StaticHandlerAtRest /\ WaitingRoomAtRest

NextStreamer ==
    \/ \E file \in StreamerFiles : StreamerLoadSequence(file)
    \/ StreamerRun

SpecStreamer == InitStreamerSpec /\ [][NextStreamer]_vars

InitCoerceSpec ==
    /\ InitCoerce
    /\ PulseBlasterAtRest /\ CacheAtRest /\ HandlerAtRest
    /\ AwgCompilerAtRest /\ BoardAtRest /\ StreamerAtRest /\ MeasurementAtRest
    /\ DataAtRest /\ StaticHandlerAtRest /\ WaitingRoomAtRest

NextCoerce ==
    \/ CoercePulseBlaster
    \/ CoerceAwg

SpecCoerce == InitCoerceSpec /\ [][NextCoerce]_vars

InitMeasurementSpec ==
    /\ InitMeasurement
    /\ PulseBlasterAtRest /\ CacheAtRest /\ HandlerAtRest
    /\ AwgCompilerAtRest /\ BoardAtRest /\ StreamerAtRest /\ CoerceAtRest
    /\ DataAtRest /\ StaticHandlerAtRest /\ WaitingRoomAtRest

NextMeasurement ==
    \/ MeasurementBegin
    \/ MeasurementLoadSequence
    \/ MeasurementRun
    \/ MeasurementAcquire
    \/ MeasurementExcept
    \/ MeasurementCloseSensor
    \/ MeasurementCloseSynchroniser
    \/ MeasurementSaveAndReturn

SpecMeasurement == InitMeasurementSpec /\ [][NextMeasurement]_vars

InitDataSpec ==
    /\ InitData
    /\ PulseBlasterAtRest /\ CacheAtRest /\ HandlerAtRest
    /\ AwgCompilerAtRest /\ BoardAtRest /\ StreamerAtRest /\ CoerceAtRest
    /\ MeasurementAtRest /\ StaticHandlerAtRest /\ WaitingRoomAtRest

NextData ==
    \/ SetDimsFromSensor
    \/ CreateArray

SpecData == InitDataSpec /\ [][NextData]_vars

InitStaticSpec ==
    /\ InitStaticHandler
    /\ PulseBlasterAtRest /\ CacheAtRest /\ HandlerAtRest
    /\ AwgCompilerAtRest /\ BoardAtRest /\ StreamerAtRest /\ CoerceAtRest
    /\ MeasurementAtRest /\ DataAtRest /\ WaitingRoomAtRest

NextStatic ==
    \/ \E requested_devices \in StaticRequests : StaticUpdateDevices(requested_devices)
    \/ SetAllParams

SpecStatic == InitStaticSpec /\ [][NextStatic]_vars

InitTranslateSpec ==
    /\ InitTranslate
    /\ PulseBlasterAtRest /\ CacheAtRest /\ HandlerAtRest /\ BoardAtRest
    /\ PeripheryAtRest

NextTranslate ==
    \/ RewriteSequenceFile
    \/ TranslateYamlCall

SpecTranslate == InitTranslateSpec /\ [][NextTranslate]_vars

InitWaitingRoomSpec ==
    /\ InitWaitingRoom
    /\ PulseBlasterAtRest /\ CacheAtRest /\ HandlerAtRest /\ AwgCompilerAtRest
    /\ BoardAtRest /\ StreamerAtRest /\ CoerceAtRest /\ MeasurementAtRest
    /\ DataAtRest /\ StaticHandlerAtRest

NextWaitingRoom ==
    \/ OnClosedPut
    \/ OnClosedSet
    \/ OnClosedClear
    \/ QueueEmptyCheck
    \/ EventWait
    \/ EventWaitReturns
    \/ QueueGet
    \/ ProcessInstructionFile

\* Both threads keep running: a handler that has put a path goes on to set
\* and clear, and the worker takes every step that is not blocked.  New
\* file events are up to the user.
WaitingRoomFairness ==
    /\ WF_vars(OnClosedSet)
    /\ WF_vars(OnClosedClear)
    /\ WF_vars(QueueEmptyCheck)
    /\ WF_vars(EventWait)
    /\ WF_vars(EventWaitReturns)
    /\ WF_vars(QueueGet)
    /\ WF_vars(ProcessInstructionFile)

SpecWaitingRoom ==
    InitWaitingRoomSpec /\ [][NextWaitingRoom]_vars /\ WaitingRoomFairness

NextLoad ==
    \/ ParsePulseSequenceFile
    \/ Compile
    \/ LoadProgramPb

SpecLoad == InitLoad /\ [][NextLoad]_vars

-----------------------------------------------------------------------------
(* PulseBlasterSequence: properties *)

RECURSIVE SumSeq(_)
SumSeq(s) == IF s = <<>> THEN 0 ELSE Head(s) + SumSeq(Tail(s))

StoredBlocks == {n \in BlockNames : ps[n] # NoEntry}

\* C1: no (bitmask, duration) pair of a block's stored segment list, and
\* none of the program returned by compile(), has duration = 0.
C1_NoZeroDuration ==
    /\ \A n \in StoredBlocks :
          \A i \in 1..Len(ps[n].durations) : ps[n].durations[i] # 0
    /\ pb_pc = "compiled" =>
          \A i \in 1..Len(compiled.durations) : compiled.durations[i] # 0

\* The channels that are inside one of their pulses at time t of a block.
ActiveChannels(ps_block, t) ==
    {c \in Channels :
        \E k \in 1..Len(ps_block[c]) :
            /\ ps_block[c][k].start <= t
            /\ t < ps_block[c][k].start + ps_block[c][k].duration}

RECURSIVE MaskOf(_, _)
MaskOf(active, i) ==
    IF i > Len(ChannelOrder) THEN 0
    ELSE (IF ChannelOrder[i] \in active THEN Pow2(channel_mapping[ChannelOrder[i]]) ELSE 0)
         + MaskOf(active, i + 1)

EdgeTimes(ps_block) ==
    LET events == ParseBlock(ps_block) IN [i \in 1..Len(events) |-> events[i].time]

\* Pulses of one channel do not overlap, all edge times of the block are
\* pairwise distinct and lie within [0, total_duration].
WellSeparated(ps_block, total_duration) ==
    LET times == EdgeTimes(ps_block)
    IN  /\ times # <<>>
        /\ \A i, j \in 1..Len(times) : i # j => times[i] # times[j]
        /\ \A i \in 1..Len(times) : 0 <= times[i] /\ times[i] <= total_duration
        /\ \A c \in Channels : \A k, l \in 1..Len(ps_block[c]) :
              k # l =>
                 \/ ps_block[c][k].start + ps_block[c][k].duration <= ps_block[c][l].start
                 \/ ps_block[c][l].start + ps_block[c][l].duration <= ps_block[c][k].start

SegmentStart(durations, i) == SumSeq(SubSeq(durations, 1, i - 1))

\* The segments tile [0, total_duration] in time order and every segment's
\* bitmask is the one of the channels that are active throughout it.
TilesWithActiveMasks(ps_block, total_duration, entry) ==
    /\ Len(entry.channel_bits) = Len(entry.durations)
    /\ SumSeq(entry.durations) = total_duration
    /\ \A i \in 1..Len(entry.durations) :
          /\ entry.durations[i] > 0
          /\ \A t \in SegmentStart(entry.durations, i)
                        ..(SegmentStart(entry.durations, i) + entry.durations[i] - 1) :
                entry.channel_bits[i] = MaskOf(ActiveChannels(ps_block, t), 1)

\* C2: for a block of non-overlapping pulses with pairwise distinct edge
\* times within [0, total_duration], the stored segments tile
\* [0, total_duration] in time order and each bitmask has exactly the bits
\* channel_mapping[c] of the channels c that are inside a pulse during the
\* segment (with a leading all-zero segment before a non-zero first event).
C2_SegmentsTileWithActiveBits ==
    \A n \in StoredBlocks :
        WellSeparated(yaml_sequence.blocks[n], yaml_sequence.total_duration)
            => TilesWithActiveMasks(yaml_sequence.blocks[n],
                                    yaml_sequence.total_duration, ps[n])

\* A stored block with a pulse on each channel, the two overlapping in time,
\* a first event after time 0 and a remainder after the last event.
C2_Witness ==
    /\ ps["b1"] # NoEntry
    /\ WellSeparated(yaml_sequence.blocks["b1"], yaml_sequence.total_duration)
    /\ Len(ps["b1"].durations) = 5
    /\ ps["b1"].channel_bits[1] = 0
    /\ \E i \in 1..5 : ps["b1"].channel_bits[i] = Pow2(channel_mapping["A"]) + Pow2(channel_mapping["B"])

\* C3: the durations of every stored block's segment list sum to exactly the
\* capped total_duration.
C3_DurationsSumToTotal ==
    \A n \in StoredBlocks : SumSeq(ps[n].durations) = yaml_sequence.total_duration

-----------------------------------------------------------------------------
(* Change-detection cache: properties *)

\* C4: starting without a persisted baseline, the first call reports
\* "changed", and a second call with the same specification (the baseline
\* untouched in between) reports "unchanged".
C4_ChangedThenUnchanged ==
    /\ Len(cache_log) >= 1 => cache_log[1].outcome = "changed"
    /\ (/\ Len(cache_log) >= 2
        /\ cache_log[2].spec = cache_log[1].spec
        /\ cache_log[2].baseline = "written")
          => cache_log[2].outcome = "unchanged"

\* Two calls on the same specification, nothing touching the baseline.
C4_Witness ==
    /\ Len(cache_log) >= 2
    /\ cache_log[1].baseline = "missing"
    /\ cache_log[2].baseline = "written"
    /\ cache_log[2].spec = cache_log[1].spec

\* C5: a call that finds the persisted baseline unreadable or corrupt
\* reports "changed"; it neither raises nor reports "unchanged".
C5_DamagedBaselineMeansChanged ==
    \A i \in 1..Len(cache_log) :
        cache_log[i].baseline = "damaged" => cache_log[i].outcome = "changed"

-----------------------------------------------------------------------------
(* Dynamic sweep generator and stepper: properties *)

ActiveDevices == {devices[i] : i \in 1..Len(devices)}

\* The snapshot of a device at cursor k: for every parameter of its sweep
\* table the pair of the channel and the k-th value (k counted from 0).
Snapshot(device, k) ==
    [q \in DOMAIN device.sweep_lists |->
        <<device.sweep_lists[q].channel, device.sweep_lists[q].sweep_values[k + 1]>>]

\* C6: after a build with number_steps = n, the k-th next_dynamic_step,
\* k = 0..n-1, raises nothing, applies to every active device the pairs
\* [channel, values[k]] of all its tracked parameters and moves the cursor
\* from k to k + 1.
C6_AdvanceAppliesStepK ==
    (/\ last_op = "next_dynamic_step"
     /\ build_error = "none"
     /\ prev_step < number_dynamic_steps)
        => /\ step_error = "none"
           /\ current_dynamic_step = prev_step + 1
           /\ \A d \in ActiveDevices : applied[d.name] = Snapshot(d, prev_step)

\* C7: once the cursor has reached number_steps, a further
\* next_dynamic_step raises and applies no configuration to any device; the
\* cursor never exceeds number_steps.
C7_ExhaustedAdvanceIsFatal ==
    /\ current_dynamic_step <= number_dynamic_steps
    /\ (last_op = "next_dynamic_step" /\ prev_step >= number_dynamic_steps)
          => /\ step_error # "none"
             /\ applied = NothingApplied

\* The value list and the sweep table of the single build of SpecBuild.
BuiltInput == devices[1].sweep_config["frequency"]
BuiltTable == devices[1].sweep_lists
HasValues(table) ==
    /\ table # NoEntry
    /\ "frequency" \in DOMAIN table
    /\ table["frequency"] # EmptyEntry

\* C8: an explicit list (any list that is not a two-element [start, stop])
\* whose length differs from number_steps makes the build fail without
\* storing sweep values; one whose length equals number_steps is stored
\* as it is.
C8_ExplicitListLengthChecked ==
    (last_op = "update_devices" /\ Len(devices) = 1 /\ Len(BuiltInput.values) # 2)
        => IF Len(BuiltInput.values) # number_dynamic_steps
           THEN build_error # "none" /\ ~HasValues(BuiltTable)
           ELSE /\ build_error = "none"
                /\ HasValues(BuiltTable)
                /\ BuiltTable["frequency"].sweep_values
                     = [i \in 1..Len(BuiltInput.values) |-> <<BuiltInput.values[i], 1>>]

\* The k-th of n values between start and stop, both ends included:
\* value * (n - 1) = start * (n - 1) + (k - 1) * (stop - start).
Interpolates(value, start, stop, n, k) ==
    value[1] * (n - 1) = value[2] * (start * (n - 1) + (k - 1) * (stop - start))

InterpolatedTable(n) ==
    /\ build_error = "none"
    /\ HasValues(BuiltTable)
    /\ Len(BuiltTable["frequency"].sweep_values) = n
    /\ BuiltTable["frequency"].sweep_values[1] = <<BuiltInput.values[1], 1>>
    /\ BuiltTable["frequency"].sweep_values[n] = <<BuiltInput.values[2], 1>>
    /\ \A k \in 1..n :
          Interpolates(BuiltTable["frequency"].sweep_values[k],
                       BuiltInput.values[1], BuiltInput.values[2], n, k)

TwoElementBuild ==
    last_op = "update_devices" /\ Len(devices) = 1 /\ Len(BuiltInput.values) = 2

\* C9 as stated: a two-element [start, stop] with number_steps = n >= 1
\* gives exactly n linearly interpolated values, the first equal to start
\* and the last equal to stop.
C9_Original ==
    (TwoElementBuild /\ number_dynamic_steps >= 1)
        => InterpolatedTable(number_dynamic_steps)

\* C9 as amended: for n >= 2 the table holds exactly n linearly interpolated
\* values from start to stop; for n = 1 it holds the single value start.
C9_LinspaceFromTwoElements ==
    /\ (TwoElementBuild /\ number_dynamic_steps >= 2)
          => InterpolatedTable(number_dynamic_steps)
    /\ (TwoElementBuild /\ number_dynamic_steps = 1)
          => /\ build_error = "none"
             /\ HasValues(BuiltTable)
             /\ BuiltTable["frequency"].sweep_values = <<(<<BuiltInput.values[1], 1>>)>>

\* A build of three or more steps between different end points with a value
\* that is not a whole number.
C9_Witness ==
    /\ TwoElementBuild
    /\ number_dynamic_steps >= 3
    /\ BuiltInput.values[1] # BuiltInput.values[2]
    /\ HasValues(BuiltTable)
    /\ \E k \in 1..Len(BuiltTable["frequency"].sweep_values) :
          BuiltTable["frequency"].sweep_values[k][2] # 1

-----------------------------------------------------------------------------
(* AWG compiler: properties *)

AwgFinished == awg_pc \in {"done", "failed"}

\* The blocks that the compiler rasterizes, in the order of their index.
AwgBlocks == SortedPulseBlocks(awg_spec.sequencing_order)

\* The file holds the single block b1 with one pulse, on the analog channel.
OneAnalogPulse ==
    /\ awg_spec.sequencing_order = <<"b1">>
    /\ awg_spec.blocks["b1"] # NoEntry
    /\ awg_spec.blocks["b1"] = OnChannel("MW", awg_spec.blocks["b1"]["MW"])
    /\ Len(awg_spec.blocks["b1"]["MW"]) = 1

ThePulse == awg_spec.blocks["b1"]["MW"][1]

\* quantize_time and sample_count as the sample grid defines them.
Quantize(time) == Round(time)
SampleCount == Quantize(awg_spec.total_duration)

\* The analog row of block b1 in the bundle.
AnalogRow == awg_bundle.text.final[1][1]

\* C11: a block with one zero-frequency, zero-phase pulse that lies inside
\* the block compiles to an analog row of exactly sample_count samples, with
\* the samples quantize(start) .. quantize(start) + quantize(duration) - 1
\* equal to the amplitude and all others 0.
C11_OnePulseRasterized ==
    (/\ AwgFinished
     /\ OneAnalogPulse
     /\ ThePulse.frequency = 0 /\ ThePulse.phase = 0
     /\ ThePulse.start >= 0
     /\ ThePulse.start + ThePulse.duration <= awg_spec.total_duration)
        => /\ awg_pc = "done"
           /\ Len(AnalogRow) = SampleCount
           /\ \A i \in Quantize(ThePulse.start)
                       ..(Quantize(ThePulse.start) + Quantize(ThePulse.duration) - 1) :
                 i + 1 \in DOMAIN AnalogRow /\ AnalogRow[i + 1] = ThePulse.amplitude
           /\ \A i \in 0..(Len(AnalogRow) - 1) :
                 (i < Quantize(ThePulse.start)
                  \/ i >= Quantize(ThePulse.start) + Quantize(ThePulse.duration))
                    => AnalogRow[i + 1] = 0

\* The sample window of a pulse is not contained in [0, n).
WindowOutside(pulse, n) ==
    /\ TimeToIndex(pulse.duration) > 0
    /\ \/ TimeToIndex(pulse.start) < 0
       \/ TimeToIndex(pulse.start) + TimeToIndex(pulse.duration) > n

\* Some pulse of a block that is compiled has its window outside the block.
SomeWindowOutside ==
    \E k \in 1..Len(AwgBlocks) :
        /\ awg_spec.blocks[AwgBlocks[k]] # NoEntry
        /\ \E c \in AwgChannelNames :
              \E j \in 1..Len(awg_spec.blocks[AwgBlocks[k]][c]) :
                  WindowOutside(awg_spec.blocks[AwgBlocks[k]][c][j],
                                NumPoints(awg_spec.total_duration))

\* C12: compiling a block with a pulse whose sample window is not contained
\* in [0, sample_count) fails, and no bundle is written.
C12_OutOfBlockPulseIsFatal ==
    (AwgFinished /\ SomeWindowOutside)
        => (awg_pc = "failed" /\ awg_bundle = NoFile)

\* C13: a pulse with frequency 0 is written as the constant amplitude on
\* every sample of its window, whatever its phase.
C13_ZeroFrequencyIsConstant ==
    (/\ awg_pc = "done"
     /\ OneAnalogPulse
     /\ ThePulse.frequency = 0)
        => \A i \in SliceIndices(Len(AnalogRow), TimeToIndex(ThePulse.start),
                                 TimeToIndex(ThePulse.start)
                                 + TimeToIndex(ThePulse.duration)) :
              AnalogRow[i + 1] = ThePulse.amplitude

\* Bit b of a non-negative integer.
Bit(value, b) == (value \div Pow2(b)) % 2

\* The four marker rows row_0 .. row_3 of a block are binary.
BinaryMarkers(block_pulses) ==
    \A k \in 0..3 : \A i \in 1..Len(block_pulses[1 + k]) :
        block_pulses[1 + k][i] \in {0, 1}

\* C14: for binary marker rows row_0 .. row_3 (in channel order) the packed
\* row has row_k in bit 4 + k of each value and bits 0-3 clear.
C14_MarkerRoundTrip ==
    awg_pc = "done" =>
        \A b \in 1..Len(awg_pulses) :
            BinaryMarkers(awg_pulses[b]) =>
                \A i \in 1..Len(awg_pulses[b][1]) :
                    /\ \A k \in 0..3 :
                          Bit(awg_bundle.text.final[b][2][i], 4 + k) = awg_pulses[b][1 + k][i]
                    /\ awg_bundle.text.final[b][2][i] % 16 = 0

-----------------------------------------------------------------------------
(* PulseBlaster timeline: properties *)

\* build_timeline: _parse_block followed by _sort_pulses.
Timeline(ps_block) == SortPulses(ParseBlock(ps_block))

\* Number of elements of a set of indices.
CountOf(S) == Cardinality(S)

\* The place that a stable sort by time gives the i-th enumerated event.
StablePlace(events, i) ==
    1 + CountOf({j \in 1..Len(events) : events[j].time < events[i].time})
      + CountOf({j \in 1..(i - 1) : events[j].time = events[i].time})

\* The place of the i-th enumerated event when ties in time are ordered by
\* channel name and then 'down' before 'up'.
SameKey(e, f) == e.time = f.time /\ e.channel = f.channel /\ e.event = f.event

KeyBefore(e, f) ==
    \/ e.time < f.time
    \/ e.time = f.time /\ ChannelRank(e.channel) < ChannelRank(f.channel)
    \/ e.time = f.time /\ e.channel = f.channel /\ e.event = "down" /\ f.event = "up"

KeyPlace(events, i) ==
    1 + CountOf({j \in 1..Len(events) : KeyBefore(events[j], events[i])})
      + CountOf({j \in 1..(i - 1) : SameKey(events[j], events[i])})

-----------------------------------------------------------------------------
(* PulseBlaster.program_pb: properties *)

\* The instructions the board has received, without the programming calls.
Instructions == SelectSeq(board, LAMBDA c : c.call = "pb_inst_pbonly")

\* The segments of the program, counted from 0 as program_pb counts them.
SegmentIndices == 0..(Len(program.pulse_duration_list) - 1)

\* program_pb has emitted the instruction of segment i.
Encoded(i) == board_pc # "idle" /\ Len(Instructions) >= i + 1

\* Two masks differ at most in bits 21-23.
SameOutsideHighBits(a, b) ==
    /\ a % Pow2(21) = b % Pow2(21)
    /\ a \div Pow2(24) = b \div Pow2(24)

\* The number that bits 21-23 of a mask hold.
HighBits(mask) == (mask \div Pow2(21)) % 8

\* C16: every encoded segment with 0 < d < minimum instruction time is
\* emitted with the minimum instruction time as its duration and a bitmask
\* that differs from the segment's bitmask only in bits 21-23.
C16_ShortPulseEncoding ==
    \A i \in SegmentIndices :
        (/\ Encoded(i)
         /\ 0 < program.pulse_duration_list[i + 1]
         /\ program.pulse_duration_list[i + 1] < MinimumInstructionTime)
            => /\ Instructions[i + 1].length = MinimumInstructionTime
               /\ SameOutsideHighBits(Instructions[i + 1].flags,
                                      program.channel_bit_masks[i + 1])

\* The clock periods that a segment shorter than the minimum instruction
\* time asks for: consecutive ranges of two nanoseconds, 0 when out of range.
PeriodsOf(d) ==
    LET ns == UnitsPerNs
    IN  IF d <= 0 THEN 0
        ELSE IF d <= 3 * ns THEN 1
        ELSE IF d <= 5 * ns THEN 2
        ELSE IF d <= 7 * ns THEN 3
        ELSE IF d <= 9 * ns THEN 4
        ELSE IF d < 10 * ns THEN 5
        ELSE 0

\* C17: a segment shorter than the minimum instruction time is emitted with
\* the number of clock periods of its range (1 to 5) in bits 21-23; for a
\* segment out of range program_pb fails and emits no instruction.
C17_ShortPulseRanges ==
    \A i \in SegmentIndices :
        (/\ board_pc \in {"programmed", "failed"}
         /\ program.pulse_duration_list[i + 1] < MinimumInstructionTime)
            => IF PeriodsOf(program.pulse_duration_list[i + 1]) = 0
               THEN board_pc = "failed" /\ ~Encoded(i)
               ELSE Encoded(i)
                    => HighBits(Instructions[i + 1].flags)
                         = PeriodsOf(program.pulse_duration_list[i + 1])

\* C18: the instructions of a non-empty program end with a BRANCH to the
\* first instruction followed by exactly one STOP; all before are CONTINUE.
C18_BranchThenStop ==
    (board_pc = "programmed" /\ Len(program.channel_bit_masks) >= 1)
        => LET n == Len(Instructions)
           IN  /\ n >= 2
               /\ Instructions[n].inst = "STOP"
               /\ Instructions[n - 1].inst = "BRANCH"
               /\ Instructions[n - 1].inst_data = 0
               /\ \A k \in 1..(n - 2) : Instructions[k].inst = "CONTINUE"

-----------------------------------------------------------------------------
(* PulseBlaster compiler: rejected specifications *)

\* A pulse of the block ends after the capped total duration.
Overruns(ps_block, total_duration) ==
    \E c \in Channels : \E k \in 1..Len(ps_block[c]) :
        ps_block[c][k].start + ps_block[c][k].duration > total_duration

\* C19: a block in which a pulse ends after the capped total_duration is
\* not compiled: no segment list is stored for it, and no stored segment
\* list holds a negative duration.
C19_OverrunIsFatal ==
    \A n \in StoredBlocks :
        /\ ~Overruns(yaml_sequence.blocks[n], yaml_sequence.total_duration)
        /\ \A i \in 1..Len(ps[n].durations) : ps[n].durations[i] >= 0

\* Two consecutive pulses of one channel overlap.
Overlaps(ps_block) ==
    \E c \in Channels : \E k \in 1..(Len(ps_block[c]) - 1) :
        ps_block[c][k].start + ps_block[c][k].duration > ps_block[c][k + 1].start

\* C20: a block in which two pulses of one channel overlap is rejected: no
\* segment list is stored for it and no program is compiled from it.
C20_OverlapIsFatal ==
    /\ \A n \in StoredBlocks : ~Overlaps(yaml_sequence.blocks[n])
    /\ pb_pc = "compiled" =>
          \A i \in 1..Len(yaml_sequence.sequencing_order) :
              ~Overlaps(yaml_sequence.blocks[yaml_sequence.sequencing_order[i]])

-----------------------------------------------------------------------------
(* PulseBlaster compiler: a sequence without a time cap *)

\* The gaps between the consecutive events of a block, after the block's
\* first event time when that is not zero, without the empty gaps.
GapsOf(ps_block) ==
    LET events == SortPulses(ParseBlock(ps_block))
        lead == IF events[1].time # 0 THEN <<events[1].time>> ELSE <<>>
        gaps == lead \o [i \in 1..(Len(events) - 1) |->
                            events[i + 1].time - events[i].time]
    IN  SelectSeq(gaps, LAMBDA d : d # 0)

HasEvents(ps_block) == ParseBlock(ps_block) # <<>>

\* C21: a sequence file whose total_duration is the sentinel string is
\* parsed without an error, and the durations stored for its block are the
\* gaps between the block's consecutive events, with no trailing segment.
C21_UncappedAddsNoTrailingSegment ==
    (/\ yaml_sequence.total_duration_type = "str"
     /\ HasEvents(yaml_sequence.blocks["b1"])
     /\ pb_pc # "constructed")
    => /\ pb_pc # "failed"
       /\ ps["b1"] # NoEntry
       /\ ps["b1"].durations = GapsOf(yaml_sequence.blocks["b1"])

-----------------------------------------------------------------------------
(* PulseBlaster.load_sequence: properties *)

\* The compilation of the loaded file is a failure: the compiler raised, the
\* block ends after the capped total, or the encoding of a segment raised.
CompilationFails ==
    \/ pb_error # "none"
    \/ board_error # "none"
    \/ /\ yaml_sequence.total_duration_type = "float"
       /\ Overruns(yaml_sequence.blocks["b1"], yaml_sequence.total_duration)

\* C22: when the compilation of the loaded file fails, the board has
\* received no programming call.
C22_NoProgrammingBeforeFailure ==
    (CompilationFails /\ pb_pc \notin {"constructed", "parsed"}) => board = <<>>

-----------------------------------------------------------------------------
(* PStreamer: properties *)

\* C23: when load_sequence returns without an exception, self.sequence is
\* the sequence compiled from the file the call read.
C23_LoadReturnsWithFreshSequence ==
    (streamer_op = "load_sequence" /\ streamer_error = "none")
    => /\ BuildSequence(streamer_file).error = "none"
       /\ streamer_sequence = BuildSequence(streamer_file).sequence

-----------------------------------------------------------------------------
(* Numeric-looking strings: properties *)

Coercible(x) == PyFloat(x).error = "none"

\* The pulse with every field replaced by the number it stands for.
Coerced(pulse) ==
    [f \in DOMAIN pulse |-> Num(PyFloat(pulse[f]).value)]

AllCoercible(pulse) == \A f \in DOMAIN pulse : Coercible(pulse[f])

\* C24: each compiler, run on a pulse whose fields are numbers or strings,
\* gives what it gives for the pulse with the fields as numbers when every
\* field is numeric-looking, and fails when a field is no number.
C24_NumericStringsAreCoerced ==
    /\ coerce_pb # NotRun =>
          IF AllCoercible(coerce_pulse)
          THEN coerce_pb = CoercePulseBlasterOutcome(Coerced(coerce_pulse))
          ELSE coerce_pb.error # "none"
    /\ coerce_awg # NotRun =>
          IF AllCoercible(coerce_pulse)
          THEN coerce_awg = CoerceAwgOutcome(Coerced(coerce_pulse))
          ELSE coerce_awg.error # "none"

-----------------------------------------------------------------------------
(* run_measurement: properties *)

MeasurementEnded == meas_pc \in {"returned", "escaped"}

\* C25: when load_sequence raised one of the compilers' exceptions,
\* run_measurement ends by returning "failed", with the sensor and the
\* synchroniser closed.
C25_FailedLoadIsFailedMeasurement ==
    (meas_load \in CompilerErrors /\ MeasurementEnded)
    => /\ meas_pc = "returned"
       /\ return_status = "failed"
       /\ sensor_closed
       /\ synchroniser_closed

-----------------------------------------------------------------------------
(* Data: properties *)

\* create_array has run after set_dims_from_sensor, in 'spread' mode.
SpreadAfterDims ==
    /\ data_pc \in {"created", "failed"}
    /\ data_self.set_number_measurements
    /\ data_self.averaging_mode = "spread"

Divisible(n, d) == \E q \in 0..n : q * d = n

ExpectedRoi == IF data_self.live_compression THEN <<1>> ELSE data_sensor.roi_shape

\* C26: in 'spread' mode after set_dims_from_sensor, the array has the
\* shape (reference_channels, dynamic_steps, number_measurements /
\* reference_channels, *roi_shape), with roi_shape [1] under live
\* compression, when the sensor's number_measurements is divisible by
\* reference_channels; otherwise create_array raises ValueError and there
\* is no array.
C26_SpreadArrayShape ==
    SpreadAfterDims =>
        IF Divisible(data_sensor.number_measurements, data_self.reference_channels)
        THEN /\ data_pc = "created"
             /\ Len(data_array.shape) = 3 + Len(ExpectedRoi)
             /\ data_array.shape[1] = data_self.reference_channels
             /\ data_array.shape[2] = data_self.number_dynamic_steps
             /\ data_array.shape[3] * data_self.reference_channels
                    = data_sensor.number_measurements
             /\ \A i \in 1..Len(ExpectedRoi) : data_array.shape[3 + i] = ExpectedRoi[i]
        ELSE /\ data_pc = "failed"
             /\ data_error = "ValueError"
             /\ data_array = NoArray

\* An array for several measurements per channel and a ROI of three
\* dimensions has been created.
C26_Witness ==
    /\ SpreadAfterDims
    /\ data_pc = "created"
    /\ data_self.reference_channels = 2
    /\ data_sensor.number_measurements = 4
    /\ ~data_self.live_compression
    /\ Len(data_sensor.roi_shape) = 3

-----------------------------------------------------------------------------
(* DeviceHandler: properties *)

\* C27: set_all_params applies to every requested device the configuration
\* that the last update_devices requested for it.
C27_RequestedConfigurationApplied ==
    static_op = "set_all_params" =>
        \A i \in 1..Len(static_requested) :
            static_applied[static_requested[i].name] = static_requested[i].config

-----------------------------------------------------------------------------
(* PulseSequenceYaml over several calls: properties *)

\* C28: when a call has skipped the compilation, sequence.npz is the bundle
\* of a successful compilation of the sequence file as it is.
C28_SkipOnlyWithCurrentBundle ==
    awg_pc = "skipped" =>
        /\ TranslateYaml(awg_spec).error = "none"
        /\ awg_bundle = TranslateYaml(awg_spec).bundle

-----------------------------------------------------------------------------
(* Dynamic sweep generator: the sweep tables across rebuilds *)

\* The parameters of a device's sweep table; a device without a table has
\* none.
TableParams(device) ==
    IF device.sweep_lists = NoEntry THEN {} ELSE DOMAIN device.sweep_lists

\* C29: after a rebuild that raised nothing, the sweep table of every
\* active device has exactly the parameters of the device's current sweep
\* configuration, each with number_dynamic_steps values; an advance that
\* raised nothing applies to every device exactly the parameters of its
\* current sweep configuration.
C29_SweepTableIsOfCurrentConfig ==
    /\ (last_op = "update_devices" /\ build_error = "none")
          => \A d \in ActiveDevices :
                /\ TableParams(d) = DOMAIN d.sweep_config
                /\ \A q \in TableParams(d) :
                      /\ d.sweep_lists[q] # EmptyEntry
                      /\ Len(d.sweep_lists[q].sweep_values) = number_dynamic_steps
    /\ (last_op = "next_dynamic_step" /\ build_error = "none" /\ step_error = "none")
          => \A d \in ActiveDevices :
                DOMAIN applied[d.name] = DOMAIN d.sweep_config

-----------------------------------------------------------------------------
(* main: properties of the watcher and the worker *)

\* C30: every path the watcher has put on the queue is eventually taken
\* and processed by the worker, without a further file event.
C30_QueuedPathIsProcessed ==
    \A n \in 1..MaxEvents : (file_events >= n) ~> (processed >= n)

====
